---- MODULE Spec2Model ----
(***************************************************************************)
(* Generation-job IPC and scheduling core of dgx-pixels.                   *)
(*                                                                         *)
(* Two threads share one JobQueue: the command thread (ZmqServer._run_loop *)
(* on the REP socket) and the worker thread                                *)
(* (GenerationWorker._worker_loop driving JobExecutor.execute_job).        *)
(* Job objects live in a heap indexed by allocation order, so that the     *)
(* dict JobQueue._jobs (job id -> object) and the worker's local           *)
(* reference to the job it executes can point at different objects, as     *)
(* they do in Python when an id is submitted twice.                        *)
(* Timestamps are abstracted to set / not set.                             *)
(***************************************************************************)
EXTENDS Integers, Sequences, FiniteSets, TLC

\* ---------------------------------------------------------------- bounds
\* number of Job objects ever created by add_job
MaxJobs == 2
\* number of poll ticks after which the hard timeout of wait_for_completion
\* has certainly elapsed
MaxPolls == 2
\* number of update_progress and complete_job calls made on the tracker
MaxCalls == 3
\* last tick of the clock
MaxClock == 8
\* number of batches submitted to the BatchProcessor
MaxBatches == 2
\* length of the list of models in a ModelListResponse
MaxModels == 2
\* samples added to a rolling window
MaxAdds == 101

\* ---------------------------------------------------------------- values
Ids == {"a", "b"}
NoId == "-"
StepChoices == {20}

QUEUED == "queued"
RUNNING == "running"
COMPLETED == "completed"
FAILED == "failed"
CANCELLED == "cancelled"
JobStatus == {QUEUED, RUNNING, COMPLETED, FAILED, CANCELLED}
Terminal == {COMPLETED, FAILED, CANCELLED}

RequestTypes == {"generate", "cancel", "list_models", "status", "ping"}
ResponseTypes == {"job_accepted", "job_complete", "job_error", "job_cancelled",
                  "model_list", "status_info", "pong", "error"}
UpdateTypes == {"job_started", "progress", "preview", "job_finished"}

VARIABLES
    phase,          \* position in GenerationWorker.start: "boot" |
                    \* "initialized" | "threaded" | "serving" | "exited"
    client,         \* JobExecutor.client is set
    heap,           \* sequence of Job objects, in creation order
    jobs,           \* JobQueue._jobs : id -> index into heap (0 = absent)
    queue,          \* JobQueue._queue : sequence of ids
    cpc,            \* command thread: "recv" | "handle"
    data,           \* payload of the last request received (until the next recv)
    awaiting,       \* REP socket state: a request was received, reply is due
    replies,        \* responses sent since the last request was received
    lastResp,       \* response sent for it (until the next recv)
    wpc,            \* worker thread: "idle"|"mark"|"exec"|"poll"|"post_wait"|"finish"
    wjob,           \* heap index of the job the worker holds (0 = none)
    ticks,          \* poll ticks done by wait_for_completion for wjob
    images,         \* WorkflowOutput.images is non-empty
    result,         \* outcome of execute_job
    cancelled_jobs, \* JobExecutor.cancelled_jobs
    active_jobs,    \* ProgressTracker.active_jobs (ids)
    events,         \* messages published on the event channel, in order,
                    \* for the jobs the worker loop has not yet left behind
    interrupt,      \* the last backend interrupt since the worker loop went
                    \* round: whose flag asked for it, what was running
    now,            \* time.time(), in ticks of half a second
    tprog,          \* ProgressTracker.active_jobs : id -> JobProgress
    stage_timings,  \* ProgressTracker.stage_timings : stage -> samples
    snapshot,       \* id -> what update_progress last returned for the id
                    \* since tracking of it started
    ncalls,         \* calls of update_progress and complete_job so far
    brunning,       \* BatchProcessor.running
    bjobs,          \* BatchProcessor.jobs : id -> BatchJob
    bqueue,         \* BatchProcessor.job_queue : the entries in the PriorityQueue
    bactive,        \* BatchProcessor.active_jobs (ids)
    bpc,            \* batch worker thread: "idle"|"process"|"prompt"|"wait"
    bcur,           \* id of the batch the worker thread holds (0 = none)
    bidx,           \* index of the prompt the loop of _process_job is at
    bstart,         \* start_time of the prompt being generated (0 = none)
    generation_times, \* BatchProcessor.generation_times
    total_processed,  \* BatchProcessor.total_processed
    total_failed,     \* BatchProcessor.total_failed
    battempted,     \* (batch, prompt index) pairs the loop has taken up
    msg,            \* the message last handed to serialize (None: foreign bytes)
    wire,           \* the bytes on the wire
    decoder,        \* family of the decoder applied to them ("-": none yet)
    decoded,        \* what the decoder returned or raised
    added           \* samples fed to the two rolling windows so far, numbered
                    \* from 1 in the order they are added

vars == <<phase, client, heap, jobs, queue, cpc, data, awaiting,
          replies, lastResp, wpc, wjob, ticks, images, result,
          cancelled_jobs, active_jobs, events, interrupt,
          now, tprog, stage_timings, snapshot, ncalls,
          brunning, bjobs, bqueue, bactive, bpc, bcur, bidx, bstart,
          generation_times, total_processed, total_failed, battempted,
          msg, wire, decoder, decoded, added>>

queueVars == <<heap, jobs, queue>>
cmdVars == <<cpc, data, awaiting, replies, lastResp>>
workerVars == <<wpc, wjob, ticks, images, result>>
execVars == <<cancelled_jobs, active_jobs, interrupt>>
trackerVars == <<now, tprog, stage_timings, snapshot, ncalls>>
batchVars == <<brunning, bjobs, bqueue, bactive, bpc, bcur, bidx, bstart,
               generation_times, total_processed, total_failed, battempted>>
codecVars == <<msg, wire, decoder, decoded>>
mainVars == <<phase, client, queueVars, cmdVars, workerVars, execVars, events>>

\* ------------------------------------------------------------ Job, JobQueue
Job(id, steps) ==
    [job_id |-> id, steps |-> steps, status |-> QUEUED,
     started_at |-> FALSE, completed_at |-> FALSE,
     error |-> FALSE, output_path |-> FALSE]

add_job(h, jm, q, id, steps) ==
    [heap |-> Append(h, Job(id, steps)),
     jobs |-> [jm EXCEPT ![id] = Len(h) + 1],
     queue |-> Append(q, id)]

\* the two assignments get_next_job makes to the job it has chosen
mark_running(h, o) == [h EXCEPT ![o].status = RUNNING, ![o].started_at = TRUE]

\* get_next_job run without interruption: job is the job returned (0 = None)
RECURSIVE get_next_job(_, _, _)
get_next_job(h, jm, q) ==
    IF q = <<>>
    THEN [job |-> 0, heap |-> h, queue |-> q]
    ELSE LET o == jm[Head(q)] IN
         IF o # 0 /\ h[o].status = QUEUED
         THEN [job |-> o,
               heap |-> mark_running(h, o),
               queue |-> Tail(q)]
         ELSE get_next_job(h, jm, Tail(q))

complete_job(h, jm, id) ==
    IF jm[id] # 0
    THEN [h EXCEPT ![jm[id]].status = COMPLETED,
                   ![jm[id]].completed_at = TRUE,
                   ![jm[id]].output_path = TRUE]
    ELSE h

fail_job(h, jm, id) ==
    IF jm[id] # 0
    THEN [h EXCEPT ![jm[id]].status = FAILED,
                   ![jm[id]].completed_at = TRUE,
                   ![jm[id]].error = TRUE]
    ELSE h

\* list.remove(x): drops the first occurrence only
RECURSIVE ListRemove(_, _)
ListRemove(q, id) ==
    IF q = <<>> THEN q
    ELSE IF Head(q) = id THEN Tail(q)
    ELSE <<Head(q)>> \o ListRemove(Tail(q), id)

InList(q, id) == \E i \in 1..Len(q) : q[i] = id

\* mutant: a Running job is refused
cancel_job_queued_only(h, jm, q, id) ==
    IF jm[id] # 0 /\ h[jm[id]].status = QUEUED
    THEN [ok |-> TRUE,
          heap |-> [h EXCEPT ![jm[id]].status = CANCELLED,
                             ![jm[id]].completed_at = TRUE],
          queue |-> IF InList(q, id) THEN ListRemove(q, id) ELSE q]
    ELSE [ok |-> FALSE, heap |-> h, queue |-> q]

cancel_job(h, jm, q, id) ==
    IF jm[id] # 0 /\ h[jm[id]].status \in {QUEUED, RUNNING}
    THEN [ok |-> TRUE,
          heap |-> [h EXCEPT ![jm[id]].status = CANCELLED,
                             ![jm[id]].completed_at = TRUE],
          queue |-> IF InList(q, id) THEN ListRemove(q, id) ELSE q]
    ELSE [ok |-> FALSE, heap |-> h, queue |-> q]

queue_size(h, jm) == Cardinality({i \in Ids : jm[i] # 0 /\ h[jm[i]].status = QUEUED})
active_count(h, jm) == Cardinality({i \in Ids : jm[i] # 0 /\ h[jm[i]].status = RUNNING})

\* def estimate_time(self, steps): one argument besides self; tenths of a second
EstimateTimeArity == 1
estimate_time(nargs, steps) ==
    IF nargs = EstimateTimeArity
    THEN [raised |-> FALSE, value |-> steps]
    ELSE [raised |-> TRUE, value |-> 0]

\* ------------------------------------------------------- message protocol
\* A command payload, described by what msgpack.unpackb and the field
\* lookups of deserialize_request can tell about it.
NoType == "<none>"
Payload(valid, ismap, type, fields, id, steps) ==
    [valid |-> valid, ismap |-> ismap, type |-> type, fields |-> fields,
     id |-> id, steps |-> steps]

NoPayload == Payload(FALSE, FALSE, "<nothing>", FALSE, NoId, 0)

WellFormed ==
    {Payload(TRUE, TRUE, "generate", TRUE, i, s) : i \in Ids, s \in StepChoices}
    \cup {Payload(TRUE, TRUE, "cancel", TRUE, i, 0) : i \in Ids}
    \cup {Payload(TRUE, TRUE, t, TRUE, NoId, 0) : t \in {"list_models", "status", "ping"}}

Malformed ==
    {Payload(FALSE, FALSE, NoType, FALSE, NoId, 0),      \* not msgpack
     Payload(TRUE, FALSE, NoType, FALSE, NoId, 0),       \* msgpack, not a map
     Payload(TRUE, TRUE, NoType, TRUE, NoId, 0),         \* map without "type"
     Payload(TRUE, TRUE, "bogus", TRUE, NoId, 0),        \* unknown type
     Payload(TRUE, TRUE, "generate", FALSE, NoId, 0)}    \* generate, key missing

Payloads == WellFormed \cup Malformed

Request(type, id, steps) == [type |-> type, id |-> id, steps |-> steps]
NoRequest == Request(NoType, NoId, 0)

\* mutant: an unknown or missing type is taken for a ping
deserialize_request_lenient(d) ==
    IF ~d.valid THEN [raised |-> TRUE, req |-> NoRequest]
    ELSE IF ~d.ismap THEN [raised |-> TRUE, req |-> NoRequest]
    ELSE IF d.type \in {"generate", "cancel"}
         THEN IF d.fields
              THEN [raised |-> FALSE, req |-> Request(d.type, d.id, d.steps)]
              ELSE [raised |-> TRUE, req |-> NoRequest]
    ELSE IF d.type \in {"list_models", "status"}
         THEN [raised |-> FALSE, req |-> Request(d.type, NoId, 0)]
    ELSE [raised |-> FALSE, req |-> Request("ping", NoId, 0)]

\* raised: msgpack.unpackb fails, obj.get on a non-map, obj[key] on a missing
\* key, or the final ValueError for an unknown type
deserialize_request(d) ==
    IF ~d.valid THEN [raised |-> TRUE, req |-> NoRequest]
    ELSE IF ~d.ismap THEN [raised |-> TRUE, req |-> NoRequest]
    ELSE IF d.type \in {"generate", "cancel"}
         THEN IF d.fields
              THEN [raised |-> FALSE, req |-> Request(d.type, d.id, d.steps)]
              ELSE [raised |-> TRUE, req |-> NoRequest]
    ELSE IF d.type \in {"list_models", "status", "ping"}
         THEN [raised |-> FALSE, req |-> Request(d.type, NoId, 0)]
    ELSE [raised |-> TRUE, req |-> NoRequest]

Response(type, id, est) == [type |-> type, job_id |-> id, estimated_time_s |-> est]
NoResponse == Response(NoType, NoId, 0)
ErrorResponse == Response("error", NoId, 0)

Update(type, id, o) == [type |-> type, job_id |-> id, obj |-> o]

\* ------------------------------------------------------ ZmqServer handlers
\* Each handler returns the response and the state it leaves behind.
Handled(resp, h, jm, q, ev) ==
    [resp |-> resp, heap |-> h, jobs |-> jm, queue |-> q, events |-> ev]

\* number of arguments the call in _handle_generate passes to estimate_time:
\* request.steps, request.batch_size, request.animation_frames
GenerateEstimateArgs == 3

handle_generate(req, h, jm, q, ev) ==
    LET a == add_job(h, jm, q, req.id, req.steps)
        e == estimate_time(GenerateEstimateArgs, req.steps)
    IN  IF e.raised
        THEN Handled(Response("job_error", req.id, 0), a.heap, a.jobs, a.queue, ev)
        ELSE Handled(Response("job_accepted", req.id, e.value),
                     a.heap, a.jobs, a.queue,
                     Append(ev, Update("job_started", req.id, Len(a.heap))))

handle_cancel(req, h, jm, q, ev) ==
    LET c == cancel_job(h, jm, q, req.id) IN
    IF c.ok
    THEN Handled(Response("job_cancelled", req.id, 0), c.heap, jm, c.queue, ev)
    ELSE Handled(Response("job_error", req.id, 0), c.heap, jm, c.queue, ev)

handle_request(req, h, jm, q, ev) ==
    CASE req.type = "generate" -> handle_generate(req, h, jm, q, ev)
      [] req.type = "cancel" -> handle_cancel(req, h, jm, q, ev)
      [] req.type = "list_models" -> Handled(Response("model_list", NoId, 0), h, jm, q, ev)
      [] req.type = "status" -> Handled(Response("status_info", NoId, 0), h, jm, q, ev)
      [] req.type = "ping" -> Handled(Response("pong", NoId, 0), h, jm, q, ev)
      [] OTHER -> Handled(ErrorResponse, h, jm, q, ev)

\* body of the inner try of _run_loop: deserialize, handle, and on any
\* exception answer with ErrorResponse
process_request(d, h, jm, q, ev) ==
    LET r == deserialize_request(d) IN
    IF r.raised
    THEN Handled(ErrorResponse, h, jm, q, ev)
    ELSE handle_request(r.req, h, jm, q, ev)

\* The REP socket: send is accepted only while a request awaits its reply.
RepSend(aw, n, last, resp) ==
    IF aw
    THEN [awaiting |-> FALSE, replies |-> n + 1, lastResp |-> resp]
    ELSE [awaiting |-> aw, replies |-> n, lastResp |-> last]

\* ComfyUIClient.interrupt(): POST /interrupt stops whatever the backend runs
Interrupt(by, during) == [by |-> by, during |-> during]
NoInterrupt == Interrupt(NoId, NoId)

\* --------------------------------------------------------- ProgressTracker
\* Durations and times are counted in ticks of half a second, percentages
\* in hundredths of a percent (rounded down).
TicksPerSecond == 2
PercentScale == 100

INITIALIZING == "initializing"
LOADING_MODELS == "loading_models"
ENCODING == "encoding"
SAMPLING == "sampling"
DECODING == "decoding"
POST_PROCESSING == "post_processing"
GenerationStage == {INITIALIZING, LOADING_MODELS, ENCODING, SAMPLING,
                    DECODING, POST_PROCESSING}

stage_order == <<INITIALIZING, LOADING_MODELS, ENCODING, SAMPLING,
                 DECODING, POST_PROCESSING>>

stage_weights ==
    [s \in GenerationStage |->
        CASE s = INITIALIZING -> 2
          [] s = LOADING_MODELS -> 10
          [] s = ENCODING -> 3
          [] s = SAMPLING -> 80
          [] s = DECODING -> 4
          [] s = POST_PROCESSING -> 1]

\* StageTimings.estimate without samples: 0.5, 2.0, 0.5, 10.0, 1.0, 0.5 s
defaults ==
    [s \in GenerationStage |->
        CASE s = INITIALIZING -> 1
          [] s = LOADING_MODELS -> 4
          [] s = ENCODING -> 1
          [] s = SAMPLING -> 20
          [] s = DECODING -> 2
          [] s = POST_PROCESSING -> 1]

RECURSIVE SumSeq(_)
SumSeq(s) == IF s = <<>> THEN 0 ELSE Head(s) + SumSeq(Tail(s))

\* StageTimings
max_samples == 100

\* a full window that turns the new sample away
add_sample_keep_oldest(samples, duration) ==
    IF Len(samples) >= max_samples THEN samples ELSE Append(samples, duration)

add_sample(samples, duration) ==
    LET s == Append(samples, duration) IN
    IF Len(s) > max_samples THEN Tail(s) ELSE s

\* an estimate that never leaves the default
estimate_default_only(stage, samples) ==
    [num |-> defaults[stage], den |-> 1]

\* StageTimings.estimate(), as the fraction num / den of ticks
estimate(stage, samples) ==
    IF samples = <<>>
    THEN [num |-> defaults[stage], den |-> 1]
    ELSE [num |-> SumSeq(samples), den |-> Len(samples)]

\* JobProgress
JobProgress(id, total_steps, t) ==
    [job_id |-> id, total_steps |-> total_steps, start_time |-> t,
     current_stage |-> INITIALIZING, current_step |-> 0,
     stage_start_time |-> t, completed_stages |-> <<>>]

NoProgress == JobProgress(NoId, 0, 0)

update_stage(job, new_stage, t) ==
    IF new_stage # job.current_stage
    THEN [job EXCEPT !.completed_stages = Append(@, job.current_stage),
                     !.current_stage = new_stage,
                     !.stage_start_time = t]
    ELSE job

\* WorkflowProgress: the raw signal of one poll.  current_node is whether a
\* node id is reported, node_name the name reported with it.
WorkflowProgress(status, current_node, node_name, step) ==
    [status |-> status, current_node |-> current_node,
     node_name |-> node_name, step |-> step]

\* the words tested by _map_status_to_stage that node_name.lower() contains
Keywords(node_name) ==
    CASE node_name = "CheckpointLoader" -> {"checkpoint", "load"}
      [] node_name = "CLIPTextEncode" -> {"clip", "encode"}
      [] node_name = "KSampler" -> {"sampler", "ksampler"}
      [] node_name = "VAEDecode" -> {"vae", "decode"}
      [] node_name = "SaveImage" -> {"save"}
      [] OTHER -> {}

ElapsedStage(elapsed) ==
    IF elapsed < 1 * TicksPerSecond THEN INITIALIZING
    ELSE IF elapsed < 3 * TicksPerSecond THEN LOADING_MODELS
    ELSE IF elapsed < 4 * TicksPerSecond THEN ENCODING
    ELSE SAMPLING

map_status_to_stage(wp, job, t) ==
    LET kw == Keywords(wp.node_name) IN
    CASE wp.status = "pending" -> INITIALIZING
      [] wp.status = "running" ->
           IF wp.current_node /\ kw \cap {"checkpoint", "load"} # {}
           THEN LOADING_MODELS
           ELSE IF wp.current_node /\ kw \cap {"encode", "clip"} # {}
           THEN ENCODING
           ELSE IF wp.current_node /\ kw \cap {"sampler", "ksampler"} # {}
           THEN SAMPLING
           ELSE IF wp.current_node /\ kw \cap {"decode", "vae"} # {}
           THEN DECODING
           ELSE IF wp.current_node /\ "save" \in kw
           THEN POST_PROCESSING
           ELSE ElapsedStage(t - job.start_time)
      [] wp.status = "success" -> POST_PROCESSING
      [] OTHER -> job.current_stage

RECURSIVE CompletedWeight(_)
CompletedWeight(stages) ==
    IF stages = <<>> THEN 0
    ELSE stage_weights[Head(stages)] + CompletedWeight(Tail(stages))

Clip(lo, x, hi) == IF x < lo THEN lo ELSE IF x > hi THEN hi ELSE x

\* _calculate_percent, called with the job already moved to the stage
calculate_percent(job, stage, step, total_steps, timings, t) ==
    LET weight == stage_weights[stage] * PercentScale
        est == estimate(stage, timings[stage])
        elapsed == t - job.stage_start_time
        stage_progress ==
            IF stage = SAMPLING /\ total_steps > 0
            THEN (step * weight) \div total_steps
            ELSE IF est.num > 0
            THEN IF elapsed * est.den >= est.num
                 THEN weight
                 ELSE (elapsed * est.den * weight) \div est.num
            ELSE 0
    IN  Clip(0, CompletedWeight(job.completed_stages) * PercentScale + stage_progress,
             100 * PercentScale)

\* the tuple update_progress returns (without eta_s)
ProgressSnapshot(stage, step, total_steps, percent) ==
    [stage |-> stage, step |-> step, total_steps |-> total_steps,
     percent |-> percent]

NoSnapshot == ProgressSnapshot("<none>", 0, 0, 0)

\* a stage change that records no duration
update_progress_unrecorded(tp, timings, tracked, id, wp, t) ==
    IF ~tracked
    THEN [tprog |-> tp, stage_timings |-> timings,
          result |-> ProgressSnapshot(INITIALIZING, 0, 100, 0)]
    ELSE LET job == tp[id]
             stage == map_status_to_stage(wp, job, t)
             job1 == update_stage(job, stage, t)
             percent == calculate_percent(job1, stage, wp.step, job.total_steps,
                                          timings, t)
         IN  [tprog |-> [tp EXCEPT ![id] = [job1 EXCEPT !.current_step = wp.step]],
              stage_timings |-> timings,
              result |-> ProgressSnapshot(stage, wp.step, job.total_steps, percent)]

\* update_progress: the state it leaves and the tuple it returns
update_progress(tp, timings, tracked, id, wp, t) ==
    IF ~tracked
    THEN [tprog |-> tp, stage_timings |-> timings,
          result |-> ProgressSnapshot(INITIALIZING, 0, 100, 0)]
    ELSE LET job == tp[id]
             stage == map_status_to_stage(wp, job, t)
             timings1 == IF stage # job.current_stage
                         THEN [timings EXCEPT ![job.current_stage] =
                                   add_sample(@, t - job.stage_start_time)]
                         ELSE timings
             job1 == update_stage(job, stage, t)
             percent == calculate_percent(job1, stage, wp.step, job.total_steps,
                                          timings1, t)
         IN  [tprog |-> [tp EXCEPT ![id] = [job1 EXCEPT !.current_step = wp.step]],
              stage_timings |-> timings1,
              result |-> ProgressSnapshot(stage, wp.step, job.total_steps, percent)]

NodeNames == {"CheckpointLoader", "CLIPTextEncode", "KSampler",
              "VAEDecode", "SaveImage", "EmptyLatentImage"}
\* steps reported while running; poll_progress reports 0 while pending and
\* 100 of 100 with the final status
SignalSteps == {0, 10, 20}
Signals ==
    {WorkflowProgress("pending", FALSE, "", 0)}
    \cup {WorkflowProgress("running", FALSE, "", k) : k \in SignalSteps}
    \cup {WorkflowProgress("running", TRUE, n, k) : n \in NodeNames, k \in SignalSteps}
    \cup {WorkflowProgress("running", FALSE, n, 0) : n \in NodeNames}
    \cup {WorkflowProgress(st, FALSE, "", 100) : st \in {"success", "error"}}

\* ------------------------------------------------------------------- Init
\* ---------------------------------------------------------- BatchProcessor
\* JobPriority: lower number = higher priority
URGENT == 0
HIGH == 1
NORMAL == 2
LOW == 3
JobPriority == {URGENT, HIGH, NORMAL, LOW}

\* job ids are uuid4 strings: any unused value, in no relation to the order
\* of submission; numbers stand for them, compared as the strings are
BatchIds == 1..MaxBatches

BatchJob(id, nprompts, priority, seq) ==
    [job_id |-> id, total_prompts |-> nprompts, priority |-> priority,
     status |-> QUEUED, started_at |-> FALSE, completed_at |-> FALSE,
     error |-> FALSE, completed_prompts |-> 0,
     seq |-> seq]      \* seq: position in the order of submission

NoBatch == BatchJob(0, 0, NORMAL, 0)

\* the tuple submit_job puts on the PriorityQueue; the timestamp is the
\* reading of time.time() at the call, which two calls may share
QueueEntry(priority, timestamp, id) ==
    [priority |-> priority, timestamp |-> timestamp, job_id |-> id]

\* a comparison that leaves the priority out
EntryLess_by_time(e, f) ==
    \/ e.timestamp < f.timestamp
    \/ e.timestamp = f.timestamp /\ e.job_id < f.job_id

\* comparison of two such tuples
EntryLess(e, f) ==
    \/ e.priority < f.priority
    \/ e.priority = f.priority /\ e.timestamp < f.timestamp
    \/ e.priority = f.priority /\ e.timestamp = f.timestamp /\ e.job_id < f.job_id

\* PriorityQueue.get(): the smallest entry
QueueGet(q) == CHOOSE e \in q : \A f \in q \ {e} : EntryLess(e, f)

max_concurrent_batches == 1
max_tracked_times == 100

\* the rolling window of generation times
track_time(times, t) ==
    LET s == Append(times, t) IN
    IF Len(s) > max_tracked_times THEN Tail(s) ELSE s

\* ------------------------------------------------------- message_protocol
\* Python values as they occur in the fields of the messages
PyNone == [k |-> "None"]
PyStr(s) == [k |-> "str", s |-> s]
PyInt(n) == [k |-> "int", n |-> n]
PyFloat(x) == [k |-> "float", x |-> x]        \* x in thousandths
PyBool(b) == [k |-> "bool", b |-> b]
PyList(items) == [k |-> "list", items |-> items]
\* a dict keeps its insertion order: a sequence of key/value pairs
PyDict(pairs) == [k |-> "dict", pairs |-> pairs]
\* a member of a str-valued Enum
PyEnum(cls, value) == [k |-> "enum", cls |-> cls, value |-> value]
\* an exception raised instead of a value
Raise(exc) == [k |-> "raise", exc |-> exc]

Pair(key, val) == [key |-> key, val |-> val]

ModelType == {"checkpoint", "lora", "vae"}
StageValues == {"initializing", "loading_models", "encoding", "sampling",
                "decoding", "post_processing"}

\* dict lookups
HasKey(obj, key) == \E i \in 1..Len(obj.pairs) : obj.pairs[i].key = key
Lookup(obj, key) ==
    obj.pairs[CHOOSE i \in 1..Len(obj.pairs) :
                 /\ obj.pairs[i].key = key
                 /\ \A j \in (i+1)..Len(obj.pairs) : obj.pairs[j].key # key].val
\* obj.get(key)
DictGet(obj, key) == IF HasKey(obj, key) THEN Lookup(obj, key) ELSE PyNone

\* dataclass instances: the class and the fields
Msg(cls, fields) == [k |-> "obj", cls |-> cls, fields |-> fields]

RequestClasses == {"GenerateRequest", "CancelRequest", "ListModelsRequest",
                   "StatusRequest", "PingRequest"}
ResponseClasses == {"JobAcceptedResponse", "JobCompleteResponse",
                    "JobErrorResponse", "JobCancelledResponse",
                    "ModelListResponse", "StatusInfoResponse", "PongResponse",
                    "ErrorResponse"}
UpdateClasses == {"JobStartedUpdate", "ProgressUpdate", "PreviewUpdate",
                  "JobFinishedUpdate"}

\* a to_dict that leaves out every falsy optional value
Optional_truthy(key, val) ==
    IF val # PyNone /\ val # PyStr("") /\ val # PyInt(0) /\ val # PyList(<<>>)
    THEN <<Pair(key, val)>> ELSE <<>>

\* the optional entries of GenerateRequest.to_dict: present unless None
Optional(key, val) == IF val # PyNone THEN <<Pair(key, val)>> ELSE <<>>

ModelInfo_to_dict(m) ==
    PyDict(<<Pair("name", m.fields.name), Pair("path", m.fields.path),
             Pair("model_type", PyStr(m.fields.model_type.value)),
             Pair("size_mb", m.fields.size_mb)>>)

MapSeq(s, Op(_)) == [i \in 1..Len(s) |-> Op(s[i])]

\* to_dict of every message class
to_dict(m) ==
    LET f == m.fields
        T(type) == Pair("type", PyStr(type))
    IN
    CASE m.cls = "GenerateRequest" ->
           PyDict(<<T("generate"), Pair("id", f.id), Pair("prompt", f.prompt),
                    Pair("model", f.model), Pair("size", f.size),
                    Pair("steps", f.steps), Pair("cfg_scale", f.cfg_scale)>>
                  \o Optional("lora", f.lora)
                  \o Optional("batch_size", f.batch_size)
                  \o Optional("animation_frames", f.animation_frames)
                  \o Optional("tileset_grid", f.tileset_grid))
      [] m.cls = "CancelRequest" -> PyDict(<<T("cancel"), Pair("job_id", f.job_id)>>)
      [] m.cls = "ListModelsRequest" -> PyDict(<<T("list_models")>>)
      [] m.cls = "StatusRequest" -> PyDict(<<T("status")>>)
      [] m.cls = "PingRequest" -> PyDict(<<T("ping")>>)
      [] m.cls = "JobAcceptedResponse" ->
           PyDict(<<T("job_accepted"), Pair("job_id", f.job_id),
                    Pair("estimated_time_s", f.estimated_time_s)>>)
      [] m.cls = "JobCompleteResponse" ->
           PyDict(<<T("job_complete"), Pair("job_id", f.job_id),
                    Pair("image_path", f.image_path),
                    Pair("duration_s", f.duration_s)>>)
      [] m.cls = "JobErrorResponse" ->
           PyDict(<<T("job_error"), Pair("job_id", f.job_id), Pair("error", f.error)>>)
      [] m.cls = "JobCancelledResponse" ->
           PyDict(<<T("job_cancelled"), Pair("job_id", f.job_id)>>)
      [] m.cls = "ModelListResponse" ->
           PyDict(<<T("model_list"),
                    Pair("models", PyList(MapSeq(f.models.items, ModelInfo_to_dict)))>>)
      [] m.cls = "StatusInfoResponse" ->
           PyDict(<<T("status_info"), Pair("version", f.version),
                    Pair("queue_size", f.queue_size),
                    Pair("active_jobs", f.active_jobs),
                    Pair("uptime_s", f.uptime_s)>>)
      [] m.cls = "PongResponse" -> PyDict(<<T("pong")>>)
      [] m.cls = "ErrorResponse" -> PyDict(<<T("error"), Pair("message", f.message)>>)
      [] m.cls = "JobStartedUpdate" ->
           PyDict(<<T("job_started"), Pair("job_id", f.job_id),
                    Pair("timestamp", f.timestamp)>>)
      [] m.cls = "ProgressUpdate" ->
           PyDict(<<T("progress"), Pair("job_id", f.job_id),
                    Pair("stage", PyStr(f.stage.value)), Pair("step", f.step),
                    Pair("total_steps", f.total_steps),
                    Pair("percent", f.percent), Pair("eta_s", f.eta_s)>>)
      [] m.cls = "PreviewUpdate" ->
           PyDict(<<T("preview"), Pair("job_id", f.job_id),
                    Pair("image_path", f.image_path), Pair("step", f.step)>>)
      [] m.cls = "JobFinishedUpdate" ->
           PyDict(<<T("job_finished"), Pair("job_id", f.job_id),
                    Pair("success", f.success), Pair("duration_s", f.duration_s)>>)

\* MessagePack: the bytes, as the sequence of the encoded items
Tok(t, s, n) == [t |-> t, s |-> s, n |-> n]

RECURSIVE packb(_)
RECURSIVE pack_all(_)
pack_all(items) ==
    IF items = <<>> THEN <<>> ELSE packb(Head(items)) \o pack_all(Tail(items))

RECURSIVE pack_pairs(_)
pack_pairs(pairs) ==
    IF pairs = <<>> THEN <<>>
    ELSE packb(PyStr(Head(pairs).key)) \o packb(Head(pairs).val)
         \o pack_pairs(Tail(pairs))

packb(v) ==
    CASE v.k = "None" -> <<Tok("nil", "", 0)>>
      [] v.k = "str" -> <<Tok("str", v.s, 0)>>
      [] v.k = "int" -> <<Tok("int", "", v.n)>>
      [] v.k = "float" -> <<Tok("float", "", v.x)>>
      [] v.k = "bool" -> <<Tok(IF v.b THEN "true" ELSE "false", "", 0)>>
      [] v.k = "list" -> <<Tok("array", "", Len(v.items))>> \o pack_all(v.items)
      [] v.k = "dict" -> <<Tok("map", "", Len(v.pairs))>> \o pack_pairs(v.pairs)

\* serialize(message)
serialize(m) == packb(to_dict(m))

\* reading one item off the front of the bytes: the value and the rest
Parsed(v, rest) == [v |-> v, rest |-> rest]

RECURSIVE unpack_one(_)
RECURSIVE unpack_items(_, _)
unpack_items(n, bytes) ==
    IF n = 0 THEN Parsed(<<>>, bytes)
    ELSE LET h == unpack_one(bytes)
             t == unpack_items(n - 1, h.rest)
         IN  Parsed(<<h.v>> \o t.v, t.rest)

RECURSIVE unpack_pairs(_, _)
unpack_pairs(n, bytes) ==
    IF n = 0 THEN Parsed(<<>>, bytes)
    ELSE LET key == unpack_one(bytes)
             val == unpack_one(key.rest)
             t == unpack_pairs(n - 1, val.rest)
         IN  Parsed(<<Pair(key.v.s, val.v)>> \o t.v, t.rest)

unpack_one(bytes) ==
    LET h == Head(bytes)
        r == Tail(bytes)
    IN
    CASE h.t = "nil" -> Parsed(PyNone, r)
      [] h.t = "str" -> Parsed(PyStr(h.s), r)
      [] h.t = "int" -> Parsed(PyInt(h.n), r)
      [] h.t = "float" -> Parsed(PyFloat(h.n), r)
      [] h.t = "true" -> Parsed(PyBool(TRUE), r)
      [] h.t = "false" -> Parsed(PyBool(FALSE), r)
      [] h.t = "array" -> LET p == unpack_items(h.n, r) IN Parsed(PyList(p.v), p.rest)
      [] h.t = "map" -> LET p == unpack_pairs(h.n, r) IN Parsed(PyDict(p.v), p.rest)

\* msgpack.unpackb(data, raw=False)
unpackb(bytes) == unpack_one(bytes).v

\* obj[key] for every key of keys, or KeyError
Need(obj, keys, made) ==
    IF \A key \in keys : HasKey(obj, key) THEN made ELSE Raise("KeyError")

IsRaise(v) == v.k = "raise"

\* Enum lookup by value: ModelType(x), GenerationStage(x)
EnumOf(cls, values, v) ==
    IF v.k = "str" /\ v.s \in values THEN PyEnum(cls, v.s) ELSE Raise("ValueError")

\* one entry of the list comprehension over obj["models"]
ModelInfo_from(m) ==
    IF m.k # "dict" THEN Raise("TypeError")
    ELSE IF ~(\A key \in {"name", "path", "model_type", "size_mb"} : HasKey(m, key))
    THEN Raise("KeyError")
    ELSE LET mt == EnumOf("ModelType", ModelType, Lookup(m, "model_type")) IN
         IF IsRaise(mt) THEN mt
         ELSE Msg("ModelInfo", [name |-> Lookup(m, "name"), path |-> Lookup(m, "path"),
                                model_type |-> mt, size_mb |-> Lookup(m, "size_mb")])

\* the first exception of a sequence of results, if any
FirstRaise(s) ==
    IF \E i \in 1..Len(s) : IsRaise(s[i])
    THEN s[CHOOSE i \in 1..Len(s) : IsRaise(s[i]) /\ \A j \in 1..(i-1) : ~IsRaise(s[j])]
    ELSE PyNone

\* the type discriminator: obj.get("type"); the empty string stands for
\* every value that is not a string
TypeOf(obj) ==
    LET t == DictGet(obj, "type") IN IF t.k = "str" THEN t.s ELSE ""

deserialize_request_msg(bytes) ==
    LET obj == unpackb(bytes) IN
    IF obj.k # "dict" THEN Raise("AttributeError")
    ELSE LET msg_type == TypeOf(obj) IN
    CASE msg_type = "generate" ->
           Need(obj, {"id", "prompt", "model", "size", "steps", "cfg_scale"},
                Msg("GenerateRequest",
                    [id |-> DictGet(obj, "id"), prompt |-> DictGet(obj, "prompt"),
                     model |-> DictGet(obj, "model"), size |-> DictGet(obj, "size"),
                     steps |-> DictGet(obj, "steps"),
                     cfg_scale |-> DictGet(obj, "cfg_scale"),
                     lora |-> DictGet(obj, "lora"),
                     batch_size |-> DictGet(obj, "batch_size"),
                     animation_frames |-> DictGet(obj, "animation_frames"),
                     tileset_grid |-> DictGet(obj, "tileset_grid")]))
      [] msg_type = "cancel" ->
           Need(obj, {"job_id"}, Msg("CancelRequest", [job_id |-> DictGet(obj, "job_id")]))
      [] msg_type = "list_models" -> Msg("ListModelsRequest", <<>>)
      [] msg_type = "status" -> Msg("StatusRequest", <<>>)
      [] msg_type = "ping" -> Msg("PingRequest", <<>>)
      [] OTHER -> Raise("ValueError")

deserialize_response(bytes) ==
    LET obj == unpackb(bytes) IN
    IF obj.k # "dict" THEN Raise("AttributeError")
    ELSE LET msg_type == TypeOf(obj) IN
    CASE msg_type = "job_accepted" ->
           Need(obj, {"job_id", "estimated_time_s"},
                Msg("JobAcceptedResponse",
                    [job_id |-> DictGet(obj, "job_id"),
                     estimated_time_s |-> DictGet(obj, "estimated_time_s")]))
      [] msg_type = "job_complete" ->
           Need(obj, {"job_id", "image_path", "duration_s"},
                Msg("JobCompleteResponse",
                    [job_id |-> DictGet(obj, "job_id"),
                     image_path |-> DictGet(obj, "image_path"),
                     duration_s |-> DictGet(obj, "duration_s")]))
      [] msg_type = "job_error" ->
           Need(obj, {"job_id", "error"},
                Msg("JobErrorResponse",
                    [job_id |-> DictGet(obj, "job_id"), error |-> DictGet(obj, "error")]))
      [] msg_type = "job_cancelled" ->
           Need(obj, {"job_id"},
                Msg("JobCancelledResponse", [job_id |-> DictGet(obj, "job_id")]))
      [] msg_type = "model_list" ->
           IF ~HasKey(obj, "models") THEN Raise("KeyError")
           ELSE IF Lookup(obj, "models").k # "list" THEN Raise("TypeError")
           ELSE LET models == MapSeq(Lookup(obj, "models").items, ModelInfo_from) IN
                IF FirstRaise(models) # PyNone THEN FirstRaise(models)
                ELSE Msg("ModelListResponse", [models |-> PyList(models)])
      [] msg_type = "status_info" ->
           Need(obj, {"version", "queue_size", "active_jobs", "uptime_s"},
                Msg("StatusInfoResponse",
                    [version |-> DictGet(obj, "version"),
                     queue_size |-> DictGet(obj, "queue_size"),
                     active_jobs |-> DictGet(obj, "active_jobs"),
                     uptime_s |-> DictGet(obj, "uptime_s")]))
      [] msg_type = "pong" -> Msg("PongResponse", <<>>)
      [] msg_type = "error" ->
           Need(obj, {"message"}, Msg("ErrorResponse", [message |-> DictGet(obj, "message")]))
      [] OTHER -> Raise("ValueError")

deserialize_update(bytes) ==
    LET obj == unpackb(bytes) IN
    IF obj.k # "dict" THEN Raise("AttributeError")
    ELSE LET msg_type == TypeOf(obj) IN
    CASE msg_type = "job_started" ->
           Need(obj, {"job_id", "timestamp"},
                Msg("JobStartedUpdate",
                    [job_id |-> DictGet(obj, "job_id"),
                     timestamp |-> DictGet(obj, "timestamp")]))
      [] msg_type = "progress" ->
           IF ~(\A key \in {"job_id", "stage", "step", "total_steps", "percent", "eta_s"} :
                    HasKey(obj, key))
           THEN Raise("KeyError")
           ELSE LET stage == EnumOf("GenerationStage", StageValues, Lookup(obj, "stage")) IN
                IF IsRaise(stage) THEN stage
                ELSE Msg("ProgressUpdate",
                         [job_id |-> Lookup(obj, "job_id"), stage |-> stage,
                          step |-> Lookup(obj, "step"),
                          total_steps |-> Lookup(obj, "total_steps"),
                          percent |-> Lookup(obj, "percent"),
                          eta_s |-> Lookup(obj, "eta_s")])
      [] msg_type = "preview" ->
           Need(obj, {"job_id", "image_path", "step"},
                Msg("PreviewUpdate",
                    [job_id |-> DictGet(obj, "job_id"),
                     image_path |-> DictGet(obj, "image_path"),
                     step |-> DictGet(obj, "step")]))
      [] msg_type = "job_finished" ->
           Need(obj, {"job_id", "success", "duration_s"},
                Msg("JobFinishedUpdate",
                    [job_id |-> DictGet(obj, "job_id"),
                     success |-> DictGet(obj, "success"),
                     duration_s |-> DictGet(obj, "duration_s")]))
      [] OTHER -> Raise("ValueError")

Families == {"request", "response", "update"}

\* decoding that falls back on the decoders of the other families
deserialize_any(family, bytes) ==
    LET tries == <<deserialize_request_msg(bytes), deserialize_response(bytes),
                   deserialize_update(bytes)>>
    IN  IF \E i \in 1..3 : ~IsRaise(tries[i])
        THEN tries[CHOOSE i \in 1..3 : ~IsRaise(tries[i])]
        ELSE Raise("ValueError")

\* the decoder of a family
deserialize(family, bytes) ==
    CASE family = "request" -> deserialize_request_msg(bytes)
      [] family = "response" -> deserialize_response(bytes)
      [] family = "update" -> deserialize_update(bytes)

FamilyOf(cls) ==
    CASE cls \in RequestClasses -> "request"
      [] cls \in ResponseClasses -> "response"
      [] cls \in UpdateClasses -> "update"

\* -------------------------------------------------- message_protocol, inputs
ModelInfos ==
    {Msg("ModelInfo", [name |-> PyStr("sdxl"), path |-> PyStr("/m/sdxl"),
                       model_type |-> PyEnum("ModelType", t), size_mb |-> PyInt(6500)]) :
        t \in ModelType}

RECURSIVE SeqsUpTo(_, _)
SeqsUpTo(S, n) ==
    IF n = 0 THEN {<<>>}
    ELSE LET shorter == SeqsUpTo(S, n - 1) IN
         shorter \cup {Append(s, x) : s \in {t \in shorter : Len(t) = n - 1}, x \in S}

GenerateRequests ==
    {Msg("GenerateRequest",
         [id |-> PyStr("a"), prompt |-> PyStr("knight"), model |-> PyStr("sdxl"),
          size |-> PyList(<<PyInt(64), PyInt(64)>>), steps |-> PyInt(20),
          cfg_scale |-> PyFloat(7500),
          lora |-> lora, batch_size |-> batch_size,
          animation_frames |-> animation_frames, tileset_grid |-> tileset_grid]) :
        lora \in {PyNone, PyStr(""), PyStr("pixel")},
        batch_size \in {PyNone, PyInt(0), PyInt(4)},
        animation_frames \in {PyNone, PyInt(8)},
        tileset_grid \in {PyNone, PyList(<<PyInt(2), PyInt(2)>>)}}

Requests ==
    GenerateRequests
    \cup {Msg("CancelRequest", [job_id |-> PyStr(i)]) : i \in Ids}
    \cup {Msg("ListModelsRequest", <<>>), Msg("StatusRequest", <<>>),
          Msg("PingRequest", <<>>)}

Responses ==
    {Msg("JobAcceptedResponse", [job_id |-> PyStr("a"), estimated_time_s |-> PyFloat(x)]) :
        x \in {0, 12500}}
    \cup {Msg("JobCompleteResponse", [job_id |-> PyStr("a"), image_path |-> PyStr("/o/a.png"),
                                      duration_s |-> PyFloat(3250)]),
          Msg("JobErrorResponse", [job_id |-> PyStr("a"), error |-> PyStr("boom")]),
          Msg("JobCancelledResponse", [job_id |-> PyStr("a")]),
          Msg("StatusInfoResponse", [version |-> PyStr("1.0.0"), queue_size |-> PyInt(2),
                                     active_jobs |-> PyInt(1), uptime_s |-> PyInt(0)]),
          Msg("PongResponse", <<>>),
          Msg("ErrorResponse", [message |-> PyStr("")])}
    \cup {Msg("ModelListResponse", [models |-> PyList(l)]) : l \in SeqsUpTo(ModelInfos, MaxModels)}

Updates ==
    {Msg("JobStartedUpdate", [job_id |-> PyStr("a"), timestamp |-> PyInt(1700000000)]),
     Msg("PreviewUpdate", [job_id |-> PyStr("a"), image_path |-> PyStr("/o/p.png"),
                           step |-> PyInt(10)])}
    \cup {Msg("ProgressUpdate", [job_id |-> PyStr("a"), stage |-> PyEnum("GenerationStage", s),
                                 step |-> PyInt(10), total_steps |-> PyInt(20),
                                 percent |-> PyFloat(42000), eta_s |-> PyFloat(0)]) :
             s \in StageValues}
    \cup {Msg("JobFinishedUpdate", [job_id |-> PyStr("a"), success |-> PyBool(b),
                                    duration_s |-> PyFloat(3250)]) : b \in BOOLEAN}

\* bytes that no serialize of this program produced
ForeignValues ==
    {PyDict(<<>>),                                          \* no discriminator
     PyDict(<<Pair("job_id", PyStr("a"))>>),
     PyDict(<<Pair("type", PyNone)>>),
     PyDict(<<Pair("type", PyInt(1))>>),
     PyDict(<<Pair("type", PyStr("bogus")), Pair("job_id", PyStr("a"))>>),
     PyDict(<<Pair("type", PyStr("Generate"))>>),
     PyList(<<PyStr("ping")>>),                             \* not a map
     PyStr("ping"),
     PyDict(<<Pair("type", PyStr("cancel"))>>),             \* a field is missing
     PyDict(<<Pair("type", PyStr("progress")), Pair("job_id", PyStr("a")),
              Pair("stage", PyStr("dreaming")), Pair("step", PyInt(1)),
              Pair("total_steps", PyInt(2)), Pair("percent", PyFloat(0)),
              Pair("eta_s", PyFloat(0))>>)}                 \* not a stage

\* ------------------------------------------------------------------- Init
Init ==
    /\ phase = "boot"
    /\ client = FALSE
    /\ heap = <<>>
    /\ jobs = [i \in Ids |-> 0]
    /\ queue = <<>>
    /\ cpc = "recv"
    /\ data = NoPayload
    /\ awaiting = FALSE
    /\ replies = 0
    /\ lastResp = NoResponse
    /\ wpc = "idle"
    /\ wjob = 0
    /\ ticks = 0
    /\ images = FALSE
    /\ result = "none"
    /\ cancelled_jobs = {}
    /\ active_jobs = {}
    /\ events = <<>>
    /\ interrupt = NoInterrupt
    /\ now = 0
    /\ tprog = [i \in Ids |-> NoProgress]
    /\ stage_timings = [s \in GenerationStage |-> <<>>]
    /\ snapshot = [i \in Ids |-> NoSnapshot]
    /\ ncalls = 0
    /\ brunning = FALSE
    /\ bjobs = [i \in BatchIds |-> NoBatch]
    /\ bqueue = {}
    /\ bactive = {}
    /\ bpc = "idle"
    /\ bcur = 0
    /\ bidx = 0
    /\ bstart = 0
    /\ generation_times = <<>>
    /\ total_processed = 0
    /\ total_failed = 0
    /\ battempted = {}
    /\ msg = PyNone
    /\ wire = <<>>
    /\ decoder = "-"
    /\ decoded = PyNone
    /\ added = [stage |-> 0, batch |-> 0]

\* --------------------------------------------------- GenerationWorker.start
\* mutant: start() goes on whatever initialize() found
Start_unchecked(healthy) ==
    /\ phase = "boot"
    /\ phase' = "initialized"
    /\ client' = healthy
    /\ UNCHANGED <<added, codecVars, batchVars, queueVars, cmdVars, workerVars, execVars, events,
                   trackerVars>>

\* executor.initialize(): create_client runs the backend health check and
\* raises when it fails; start() answers any exception with sys.exit(1).
Start(healthy) ==
    /\ phase = "boot"
    /\ IF healthy
       THEN phase' = "initialized" /\ client' = TRUE
       ELSE phase' = "exited" /\ client' = FALSE
    /\ UNCHANGED <<added, codecVars, batchVars, queueVars, cmdVars, workerVars, execVars, events,
                   trackerVars>>

\* self.running = True; self.worker_thread.start()
StartWorkerThread ==
    /\ phase = "initialized"
    /\ phase' = "threaded"
    /\ UNCHANGED <<added, codecVars, batchVars, client, queueVars, cmdVars, workerVars, execVars, events,
                   trackerVars>>

\* zmq_server.start(): both sockets are bound and the request loop begins
ServerStart ==
    /\ phase = "threaded"
    /\ phase' = "serving"
    /\ UNCHANGED <<added, codecVars, batchVars, client, queueVars, cmdVars, workerVars, execVars, events,
                   trackerVars>>

\* the worker thread exists; the sockets are bound
ThreadStarted == phase \in {"threaded", "serving"}
SocketsBound == phase = "serving"

\* ------------------------------------------------------ ZmqServer._run_loop
\* recv() times out (zmq.Again): continue
ServerRecvTimeout ==
    /\ phase = "serving" /\ cpc = "recv" /\ ~awaiting
    /\ data' = NoPayload
    /\ lastResp' = NoResponse
    /\ replies' = 0
    /\ UNCHANGED <<added, codecVars, batchVars, phase, client, queueVars, cpc, awaiting, workerVars,
                   execVars, events, trackerVars>>

\* recv() returns a payload
ServerRecv(d) ==
    /\ phase = "serving" /\ cpc = "recv" /\ ~awaiting
    /\ d.type = "generate" /\ d.fields => Len(heap) < MaxJobs
    /\ cpc' = "handle"
    /\ data' = d
    /\ lastResp' = NoResponse
    /\ awaiting' = TRUE
    /\ replies' = 0
    /\ UNCHANGED <<added, codecVars, batchVars, phase, client, queueVars, workerVars, execVars, events,
                   trackerVars>>

\* recv() raises something else: the outer handler tries to send an
\* ErrorResponse and swallows the failure of that send
ServerRecvError ==
    /\ phase = "serving" /\ cpc = "recv"
    /\ LET s == RepSend(awaiting, 0, NoResponse, ErrorResponse) IN
       /\ awaiting' = s.awaiting
       /\ replies' = s.replies
       /\ lastResp' = s.lastResp
    /\ data' = NoPayload
    /\ UNCHANGED <<added, codecVars, batchVars, phase, client, queueVars, cpc, workerVars, execVars, events,
                   trackerVars>>

\* mutant: a request that cannot be decoded is logged and not answered
ServerReply_silent ==
    /\ phase = "serving" /\ cpc = "handle"
    /\ LET r == process_request(data, heap, jobs, queue, events)
           s == IF deserialize_request(data).raised
                THEN [awaiting |-> awaiting, replies |-> replies, lastResp |-> lastResp]
                ELSE RepSend(awaiting, replies, lastResp, r.resp)
       IN  /\ heap' = r.heap
           /\ jobs' = r.jobs
           /\ queue' = r.queue
           /\ events' = r.events
           /\ awaiting' = s.awaiting
           /\ replies' = s.replies
           /\ lastResp' = s.lastResp
    /\ cpc' = "recv"
    /\ UNCHANGED <<added, codecVars, batchVars, phase, client, data, workerVars, execVars, trackerVars>>

\* deserialize, handle, serialize and send the response
ServerReply ==
    /\ phase = "serving" /\ cpc = "handle"
    /\ LET r == process_request(data, heap, jobs, queue, events)
           s == RepSend(awaiting, replies, lastResp, r.resp)
       IN  /\ heap' = r.heap
           /\ jobs' = r.jobs
           /\ queue' = r.queue
           /\ events' = r.events
           /\ awaiting' = s.awaiting
           /\ replies' = s.replies
           /\ lastResp' = s.lastResp
    /\ cpc' = "recv"
    /\ UNCHANGED <<added, codecVars, batchVars, phase, client, data, workerVars, execVars, trackerVars>>

\* ------------------------------------------------------------- JobExecutor
Executing == wpc \in {"poll", "post_wait"}
RunningId == IF Executing THEN heap[wjob].job_id ELSE NoId


publish(ev, type, id, o) == Append(ev, Update(type, id, o))

\* JobExecutor.cancel_job: a public method; set the flag, interrupt the backend
ExecutorCancel(id) ==
    /\ phase = "serving"
    /\ cancelled_jobs' = cancelled_jobs \cup {id}
    /\ interrupt' = IF client THEN Interrupt(id, RunningId) ELSE interrupt
    /\ UNCHANGED <<added, codecVars, batchVars, phase, client, queueVars, cmdVars, workerVars, active_jobs, events,
                   trackerVars>>

\* execute_job up to the start of the backend wait: JobStarted, template
\* load, parameter injection, submission, start of progress tracking.
\* submitted = FALSE: one of load / inject / queue_prompt raised.
Begun(res, pc, aj, ev) == [result |-> res, wpc |-> pc, active_jobs |-> aj, events |-> ev]

\* mutant: JobStarted is not published
begin_execution_unannounced(id, o, hasClient, aj, ev, submitted) ==
    IF ~hasClient
    THEN Begun("not_initialized", "finish", aj, ev)
    ELSE IF submitted
    THEN Begun("none", "poll", aj \cup {id}, ev)
    ELSE Begun("failed", "finish", aj, publish(ev, "job_finished", id, o))

begin_execution(id, o, hasClient, aj, ev, submitted) ==
    IF ~hasClient
    THEN Begun("not_initialized", "finish", aj, ev)
    ELSE IF submitted
    THEN Begun("none", "poll", aj \cup {id}, publish(ev, "job_started", id, o))
    ELSE Begun("failed", "finish", aj,
               publish(publish(ev, "job_started", id, o), "job_finished", id, o))

ExecBegin(submitted) ==
    /\ wpc = "exec"
    /\ LET b == begin_execution(heap[wjob].job_id, wjob, client, active_jobs,
                                events, submitted)
       IN  /\ result' = b.result
           /\ wpc' = b.wpc
           /\ active_jobs' = b.active_jobs
           /\ events' = b.events
    /\ ticks' = 0
    /\ UNCHANGED <<added, codecVars, batchVars, phase, client, queueVars, cmdVars, wjob, images,
                   cancelled_jobs, interrupt, trackerVars>>

\* _handle_progress: the callback of every poll tick
handle_progress(id, o, cj, ev, last) ==
    IF id \in cj
    THEN [events |-> ev, interrupt |-> Interrupt(id, id)]
    ELSE [events |-> publish(ev, "progress", id, o), interrupt |-> last]

PollSignals == {"timeout", "raise", "pending", "running", "success",
                "success_empty", "error"}

\* one iteration of wait_for_completion, with what execute_job does when
\* the wait raises
ExecPoll(sig) ==
    /\ wpc = "poll"
    /\ ticks >= MaxPolls => sig = "timeout"
    /\ LET id == heap[wjob].job_id
           cb == handle_progress(id, wjob, cancelled_jobs, events, interrupt)
       IN
       CASE sig = "timeout" ->
              /\ interrupt' = Interrupt(id, id)
              /\ events' = publish(events, "job_finished", id, wjob)
              /\ result' = "timeout"
              /\ wpc' = "finish"
              /\ ticks' = 0
              /\ UNCHANGED images
         [] sig = "raise" ->
              /\ events' = publish(events, "job_finished", id, wjob)
              /\ result' = "failed"
              /\ wpc' = "finish"
              /\ ticks' = 0
              /\ UNCHANGED <<images, interrupt>>
         [] sig = "error" ->
              /\ interrupt' = cb.interrupt
              /\ events' = publish(cb.events, "job_finished", id, wjob)
              /\ result' = "failed"
              /\ wpc' = "finish"
              /\ ticks' = 0
              /\ UNCHANGED images
         [] sig \in {"success", "success_empty"} ->
              /\ interrupt' = cb.interrupt
              /\ events' = cb.events
              /\ images' = (sig = "success")
              /\ wpc' = "post_wait"
              /\ ticks' = 0
              /\ UNCHANGED result
         [] OTHER ->
              /\ interrupt' = cb.interrupt
              /\ events' = cb.events
              /\ ticks' = ticks + 1
              /\ UNCHANGED <<wpc, images, result>>
    /\ UNCHANGED <<added, codecVars, batchVars, phase, client, queueVars, cmdVars, wjob, cancelled_jobs,
                   active_jobs, trackerVars>>

\* execute_job after wait_for_completion has returned an output
\* downloaded = FALSE: _download_output raised
\* mutant: the cancellation flag is not consulted after the wait
finish_execution_unchecked(id, o, cj, aj, ev, img, downloaded) ==
    IF ~img
    THEN [result |-> "no_images", cancelled_jobs |-> cj,
          active_jobs |-> aj, events |-> ev]
    ELSE IF ~downloaded
    THEN [result |-> "failed", cancelled_jobs |-> cj,
          active_jobs |-> aj, events |-> publish(ev, "job_finished", id, o)]
    ELSE [result |-> "success", cancelled_jobs |-> cj,
          active_jobs |-> aj \ {id}, events |-> publish(ev, "job_finished", id, o)]

finish_execution(id, o, cj, aj, ev, img, downloaded) ==
    IF id \in cj
    THEN [result |-> "cancelled", cancelled_jobs |-> cj \ {id},
          active_jobs |-> aj, events |-> ev]
    ELSE IF ~img
    THEN [result |-> "no_images", cancelled_jobs |-> cj,
          active_jobs |-> aj, events |-> ev]
    ELSE IF ~downloaded
    THEN [result |-> "failed", cancelled_jobs |-> cj,
          active_jobs |-> aj, events |-> publish(ev, "job_finished", id, o)]
    ELSE [result |-> "success", cancelled_jobs |-> cj,
          active_jobs |-> aj \ {id}, events |-> publish(ev, "job_finished", id, o)]

ExecFinish(downloaded) ==
    /\ wpc = "post_wait"
    /\ LET f == finish_execution(heap[wjob].job_id, wjob, cancelled_jobs,
                                 active_jobs, events, images, downloaded)
       IN  /\ result' = f.result
           /\ cancelled_jobs' = f.cancelled_jobs
           /\ active_jobs' = f.active_jobs
           /\ events' = f.events
    /\ wpc' = "finish"
    /\ UNCHANGED <<added, codecVars, batchVars, phase, client, queueVars, cmdVars, wjob, ticks, images, interrupt,
                   trackerVars>>

\* ---------------------------------------------- GenerationWorker._worker_loop
\* The JobQueue has no lock and is used by both threads.  get_next_job tests
\* job.status and then assigns it; the command thread can run between the
\* test and the assignments, so the call is two steps of the worker thread.

\* mutant: the loop asks for the next job while execute_job is still waiting
WorkerGetNext_eager ==
    /\ ThreadStarted /\ wpc \in {"idle", "poll"}
    /\ LET g == get_next_job(heap, jobs, queue) IN
       /\ queue' = g.queue
       /\ wjob' = g.job
       /\ wpc' = IF g.job # 0 THEN "mark" ELSE "idle"
    /\ events' = SelectSeq(events, LAMBDA e : e.obj # wjob)
    /\ interrupt' = NoInterrupt
    /\ UNCHANGED <<added, codecVars, batchVars, phase, client, heap, jobs, cmdVars, ticks, images, result,
                   cancelled_jobs, active_jobs, trackerVars>>

\* get_next_job up to the test that finds a Queued job (or the empty list)
WorkerGetNext ==
    /\ ThreadStarted /\ wpc = "idle"
    /\ LET g == get_next_job(heap, jobs, queue) IN
       /\ queue' = g.queue
       /\ wjob' = g.job
       /\ wpc' = IF g.job # 0 THEN "mark" ELSE "idle"
    /\ events' = SelectSeq(events, LAMBDA e : e.obj # wjob)
    /\ interrupt' = NoInterrupt
    /\ UNCHANGED <<added, codecVars, batchVars, phase, client, heap, jobs, cmdVars, ticks, images, result,
                   cancelled_jobs, active_jobs, trackerVars>>

\* get_next_job from there: status = RUNNING, started_at, return job
WorkerMark ==
    /\ wpc = "mark"
    /\ heap' = mark_running(heap, wjob)
    /\ wpc' = "exec"
    /\ UNCHANGED <<added, codecVars, batchVars, phase, client, jobs, queue, cmdVars, wjob, ticks, images,
                   result, execVars, events, trackerVars>>

\* what the loop does with the tuple execute_job returned
WorkerFinish ==
    /\ wpc = "finish"
    /\ LET id == heap[wjob].job_id IN
       IF result = "success"
       THEN /\ heap' = complete_job(heap, jobs, id)
            /\ events' = publish(events, "job_complete", id, wjob)
       ELSE /\ heap' = fail_job(heap, jobs, id)
            /\ events' = publish(events, "job_error", id, wjob)
    /\ wpc' = "idle"
    /\ result' = "none"
    /\ images' = FALSE
    /\ UNCHANGED <<added, codecVars, batchVars, phase, client, jobs, queue, cmdVars, wjob, ticks, execVars,
                   trackerVars>>

\* --------------------------------------------------- ProgressTracker alone
\* The tracker driven through its three methods by any caller, with any
\* sequence of backend signals, while time passes.
TrackerStart(id, total_steps) ==
    /\ active_jobs' = active_jobs \cup {id}
    /\ tprog' = [tprog EXCEPT ![id] = JobProgress(id, total_steps, now)]
    /\ snapshot' = [snapshot EXCEPT ![id] = NoSnapshot]
    /\ UNCHANGED <<added, codecVars, batchVars, phase, client, queueVars, cmdVars, workerVars, cancelled_jobs,
                   interrupt, events, now, stage_timings, ncalls>>

TrackerUpdate(id, wp) ==
    /\ ncalls < MaxCalls
    /\ LET u == update_progress(tprog, stage_timings, id \in active_jobs, id, wp, now)
       IN  /\ tprog' = u.tprog
           /\ stage_timings' = u.stage_timings
           /\ snapshot' = [snapshot EXCEPT ![id] = u.result]
    /\ ncalls' = ncalls + 1
    /\ UNCHANGED <<added, codecVars, batchVars, phase, client, queueVars, cmdVars, workerVars, execVars,
                   events, now>>

\* complete_job: record the last stage's duration, forget the job
TrackerComplete(id) ==
    /\ ncalls < MaxCalls
    /\ ncalls' = ncalls + 1
    /\ IF id \in active_jobs
       THEN /\ stage_timings' =
                  [stage_timings EXCEPT ![tprog[id].current_stage] =
                      add_sample(@, now - tprog[id].stage_start_time)]
            /\ active_jobs' = active_jobs \ {id}
            /\ tprog' = [tprog EXCEPT ![id] = NoProgress]
            /\ snapshot' = [snapshot EXCEPT ![id] = NoSnapshot]
       ELSE UNCHANGED <<stage_timings, active_jobs, tprog, snapshot>>
    /\ UNCHANGED <<added, codecVars, batchVars, phase, client, queueVars, cmdVars, workerVars, cancelled_jobs,
                   interrupt, events, now>>

\* time passes
Advance(d) ==
    /\ now + d <= MaxClock
    /\ now' = now + d
    /\ UNCHANGED <<added, codecVars, batchVars, phase, client, queueVars, cmdVars, workerVars, execVars,
                   events, tprog, stage_timings, snapshot, ncalls>>

\* ------------------------------------------------- BatchProcessor, actions
\* start(): health check, then the worker thread
BatchStart(healthy) ==
    /\ ~brunning
    /\ brunning' = healthy
    /\ UNCHANGED <<added, codecVars, mainVars, trackerVars,
                   bjobs, bqueue, bactive, bpc, bcur, bidx, bstart,
                   generation_times, total_processed, total_failed, battempted>>

submit_job(bj, q, id, nprompts, priority, t) ==
    [jobs |-> [bj EXCEPT ![id] =
                  BatchJob(id, nprompts, priority,
                           Cardinality({i \in BatchIds : bj[i] # NoBatch}) + 1)],
     queue |-> q \cup {QueueEntry(priority, t, id)}]

BatchSubmit(id, nprompts, priority) ==
    /\ bjobs[id] = NoBatch
    /\ LET s == submit_job(bjobs, bqueue, id, nprompts, priority, now) IN
       /\ bjobs' = s.jobs
       /\ bqueue' = s.queue
    /\ UNCHANGED <<added, codecVars, mainVars, trackerVars,
                   brunning, bactive, bpc, bcur, bidx, bstart,
                   generation_times, total_processed, total_failed, battempted>>

\* cancel_job of the BatchProcessor
BatchCancel(id) ==
    /\ bjobs[id] # NoBatch
    /\ bjobs[id].status \in {QUEUED, RUNNING}
    /\ bjobs' = [bjobs EXCEPT ![id].status = CANCELLED, ![id].completed_at = TRUE]
    /\ bactive' = bactive \ {id}
    /\ UNCHANGED <<added, codecVars, mainVars, trackerVars,
                   brunning, bqueue, bpc, bcur, bidx, bstart,
                   generation_times, total_processed, total_failed, battempted>>

\* _worker_loop: take the next entry, look the job up, skip a cancelled one
BatchGet ==
    /\ brunning /\ bpc = "idle"
    /\ Cardinality(bactive) < max_concurrent_batches
    /\ bqueue # {}
    /\ LET e == QueueGet(bqueue) IN
       /\ bqueue' = bqueue \ {e}
       /\ IF bjobs[e.job_id] = NoBatch \/ bjobs[e.job_id].status = CANCELLED
          THEN bpc' = "idle" /\ bcur' = 0
          ELSE bpc' = "process" /\ bcur' = e.job_id
    /\ UNCHANGED <<added, codecVars, mainVars, trackerVars,
                   brunning, bjobs, bactive, bidx, bstart,
                   generation_times, total_processed, total_failed, battempted>>

\* _process_job up to the loop over the prompts
\* prepared = FALSE: creating the directories or loading the workflow raised
ProcessBegin(prepared) ==
    /\ bpc = "process"
    /\ IF prepared
       THEN /\ bjobs' = [bjobs EXCEPT ![bcur].status = RUNNING,
                                      ![bcur].started_at = TRUE]
            /\ bactive' = bactive \cup {bcur}
            /\ bpc' = "prompt"
            /\ UNCHANGED <<bcur, total_failed>>
       ELSE /\ bjobs' = [bjobs EXCEPT ![bcur].status = FAILED,
                                      ![bcur].started_at = TRUE,
                                      ![bcur].completed_at = TRUE,
                                      ![bcur].error = TRUE]
            /\ bactive' = bactive \ {bcur}
            /\ bpc' = "idle"
            /\ bcur' = 0
            /\ total_failed' = total_failed + 1
    /\ bidx' = 0
    /\ UNCHANGED <<added, codecVars, mainVars, trackerVars,
                   brunning, bqueue, bstart,
                   generation_times, total_processed, battempted>>

\* a loop that is left only at the end of the list
LoopDone_at_end == bidx >= bjobs[bcur].total_prompts

\* the loop is left at the end of the list, or by the cancellation test at
\* the head of an iteration
LoopDone ==
    \/ bidx >= bjobs[bcur].total_prompts
    \/ bjobs[bcur].status = CANCELLED

\* head of an iteration: the next prompt is taken up
PromptBegin ==
    /\ bpc = "prompt"
    /\ ~LoopDone
    /\ bpc' = "wait"
    /\ bstart' = now
    /\ battempted' = battempted \cup {<<bcur, bidx>>}
    /\ UNCHANGED <<added, codecVars, mainVars, trackerVars,
                   brunning, bjobs, bqueue, bactive, bcur, bidx,
                   generation_times, total_processed, total_failed>>

\* an iteration whose failure ends the loop
PromptEnd_abort(ok) ==
    /\ bpc = "wait"
    /\ IF ok
       THEN /\ generation_times' = track_time(generation_times, now - bstart)
            /\ bjobs' = [bjobs EXCEPT ![bcur].completed_prompts = bidx + 1]
       ELSE /\ bjobs' = [bjobs EXCEPT ![bcur].error = TRUE]
            /\ UNCHANGED generation_times
    /\ bidx' = IF ok THEN bidx + 1 ELSE bjobs[bcur].total_prompts
    /\ bstart' = 0
    /\ bpc' = "prompt"
    /\ UNCHANGED <<added, codecVars, mainVars, trackerVars,
                   brunning, bqueue, bactive, bcur,
                   total_processed, total_failed, battempted>>

\* the prompt is generated, downloaded and recorded (ok), or one of the
\* steps raised
PromptEnd(ok) ==
    /\ bpc = "wait"
    /\ IF ok
       THEN /\ generation_times' = track_time(generation_times, now - bstart)
            /\ bjobs' = [bjobs EXCEPT ![bcur].completed_prompts = bidx + 1]
       ELSE /\ bjobs' = [bjobs EXCEPT ![bcur].error = TRUE]
            /\ UNCHANGED generation_times
    /\ bidx' = bidx + 1
    /\ bstart' = 0
    /\ bpc' = "prompt"
    /\ UNCHANGED <<added, codecVars, mainVars, trackerVars,
                   brunning, bqueue, bactive, bcur,
                   total_processed, total_failed, battempted>>

\* after the loop: the summary file, the final status, the finally clause
\* saved = FALSE: writing batch_info.json raised
ProcessEnd(saved) ==
    /\ bpc = "prompt"
    /\ LoopDone
    /\ IF saved
       THEN /\ bjobs' = [bjobs EXCEPT ![bcur].status = COMPLETED,
                                      ![bcur].completed_at = TRUE]
            /\ total_processed' = total_processed + 1
            /\ UNCHANGED total_failed
       ELSE /\ bjobs' = [bjobs EXCEPT ![bcur].status = FAILED,
                                      ![bcur].completed_at = TRUE,
                                      ![bcur].error = TRUE]
            /\ total_failed' = total_failed + 1
            /\ UNCHANGED total_processed
    /\ bactive' = bactive \ {bcur}
    /\ bpc' = "idle"
    /\ bcur' = 0
    /\ bidx' = 0
    /\ UNCHANGED <<added, codecVars, mainVars, trackerVars,
                   brunning, bqueue, bstart,
                   generation_times, battempted>>

\* ------------------------------------------- the rolling windows alone
\* the stage whose window is filled
WindowStage == SAMPLING

\* StageTimings.add_sample with the next sample
AddStageSample ==
    /\ added.stage < MaxAdds
    /\ added' = [added EXCEPT !.stage = @ + 1]
    /\ stage_timings' = [stage_timings EXCEPT ![WindowStage] =
                             add_sample(@, added.stage + 1)]
    /\ UNCHANGED <<mainVars, batchVars, codecVars, now, tprog, snapshot, ncalls>>

\* the generation time of one more prompt is tracked
AddGenerationTime ==
    /\ added.batch < MaxAdds
    /\ added' = [added EXCEPT !.batch = @ + 1]
    /\ generation_times' = track_time(generation_times, added.batch + 1)
    /\ UNCHANGED <<mainVars, trackerVars, codecVars,
                   brunning, bjobs, bqueue, bactive, bpc, bcur, bidx, bstart,
                   total_processed, total_failed, battempted>>

\* ------------------------------------------- message_protocol on its own
\* serialize(message) puts the bytes on the wire
Serialize(m) ==
    /\ msg' = m
    /\ wire' = serialize(m)
    /\ decoder' = "-"
    /\ decoded' = PyNone
    /\ UNCHANGED <<added, mainVars, trackerVars, batchVars>>

\* bytes from elsewhere arrive on the wire
Inject(v) ==
    /\ msg' = PyNone
    /\ wire' = packb(v)
    /\ decoder' = "-"
    /\ decoded' = PyNone
    /\ UNCHANGED <<added, mainVars, trackerVars, batchVars>>

\* the decoder of a family is applied to the bytes on the wire
Deserialize(family) ==
    /\ wire # <<>>
    /\ decoder = "-"
    /\ decoder' = family
    /\ decoded' = deserialize(family, wire)
    /\ UNCHANGED <<added, mainVars, trackerVars, batchVars, msg, wire>>

\* ------------------------------------------------------------------- Next
Next ==
    \/ \E healthy \in BOOLEAN : Start(healthy)
    \/ StartWorkerThread
    \/ ServerStart
    \/ ServerRecvTimeout
    \/ \E d \in Payloads : ServerRecv(d)
    \/ ServerRecvError
    \/ ServerReply
    \/ WorkerGetNext
    \/ WorkerMark
    \/ \E submitted \in BOOLEAN : ExecBegin(submitted)
    \/ \E sig \in PollSignals : ExecPoll(sig)
    \/ \E downloaded \in BOOLEAN : ExecFinish(downloaded)
    \/ WorkerFinish

\* The running server.  Nothing in it calls JobExecutor.cancel_job.
Spec == Init /\ [][Next]_vars

\* The worker thread runs whenever it has a step to take.
Fairness ==
    /\ WF_vars(WorkerGetNext)
    /\ WF_vars(WorkerMark)
    /\ WF_vars(\E submitted \in BOOLEAN : ExecBegin(submitted))
    /\ WF_vars(\E sig \in PollSignals : ExecPoll(sig))
    /\ WF_vars(\E downloaded \in BOOLEAN : ExecFinish(downloaded))
    /\ WF_vars(WorkerFinish)

FairSpec == Spec /\ Fairness

\* The executor used through its public interface: jobs arrive through
\* Generate requests, and an embedding caller may call
\* JobExecutor.cancel_job(id) at any moment.
GeneratePayloads == {d \in WellFormed : d.type = "generate"}

NextExec ==
    \/ \E healthy \in BOOLEAN : Start(healthy)
    \/ StartWorkerThread
    \/ ServerStart
    \/ \E d \in GeneratePayloads : ServerRecv(d)
    \/ ServerReply
    \/ \E id \in Ids : ExecutorCancel(id)
    \/ WorkerGetNext
    \/ WorkerMark
    \/ \E submitted \in BOOLEAN : ExecBegin(submitted)
    \/ \E sig \in PollSignals : ExecPoll(sig)
    \/ \E downloaded \in BOOLEAN : ExecFinish(downloaded)
    \/ WorkerFinish

SpecExec == Init /\ [][NextExec]_vars

\* The ProgressTracker on its own.
TimeSteps == {2, 6}
TrackedIds == {"a"}

NextTracker ==
    \/ \E id \in TrackedIds, n \in StepChoices : TrackerStart(id, n)
    \/ \E id \in TrackedIds, wp \in Signals : TrackerUpdate(id, wp)
    \/ \E id \in TrackedIds : TrackerComplete(id)
    \/ \E d \in TimeSteps : Advance(d)

SpecTracker == Init /\ [][NextTracker]_vars

\* The BatchProcessor on its own: batches are submitted and cancelled by any
\* caller, before and after start(), while the worker thread processes them.
PromptCounts == {1}

NextBatch ==
    \/ \E healthy \in BOOLEAN : BatchStart(healthy)
    \/ \E id \in BatchIds, n \in PromptCounts, p \in JobPriority : BatchSubmit(id, n, p)
    \/ \E id \in BatchIds : BatchCancel(id)
    \/ BatchGet
    \/ \E prepared \in BOOLEAN : ProcessBegin(prepared)
    \/ PromptBegin
    \/ \E ok \in BOOLEAN : PromptEnd(ok)
    \/ \E saved \in BOOLEAN : ProcessEnd(saved)
    \/ Advance(MaxClock)

SpecBatch == Init /\ [][NextBatch]_vars

\* The BatchProcessor working through batches of several prompts, all of
\* one priority class.
LongPromptCounts == {2}

NextPrompts ==
    \/ \E healthy \in BOOLEAN : BatchStart(healthy)
    \/ \E id \in BatchIds, n \in LongPromptCounts : BatchSubmit(id, n, NORMAL)
    \/ \E id \in BatchIds : BatchCancel(id)
    \/ BatchGet
    \/ \E prepared \in BOOLEAN : ProcessBegin(prepared)
    \/ PromptBegin
    \/ \E ok \in BOOLEAN : PromptEnd(ok)
    \/ \E saved \in BOOLEAN : ProcessEnd(saved)
    \/ Advance(MaxClock)

SpecPrompts == Init /\ [][NextPrompts]_vars

\* The message protocol on its own: any message of the three families is
\* serialized, or foreign bytes arrive, and any of the three decoders is
\* applied.
NextCodec ==
    \/ \E m \in Requests \cup Responses \cup Updates : Serialize(m)
    \/ \E v \in ForeignValues : Inject(v)
    \/ \E family \in Families : Deserialize(family)

SpecCodec == Init /\ [][NextCodec]_vars

\* The two rolling windows on their own, fed one sample after the other.
NextWindow ==
    \/ AddStageSample
    \/ AddGenerationTime

SpecWindow == Init /\ [][NextWindow]_vars

\* ================================================================ claims
Objects == 1..Len(heap)
IsUpdate(i, type, o) == events[i].type = type /\ events[i].obj = o
Count(type, o) == Cardinality({i \in 1..Len(events) : IsUpdate(i, type, o)})

\* the command thread answers the request it holds in this step
Answers(type) == cpc = "handle" /\ data \in WellFormed /\ data.type = type /\ cpc' = "recv"

\* ---------------------------------------------------------------- C1
\* C1: a job's status changes only along Queued->Running->{Completed,Failed}
\* or {Queued,Running}->Cancelled, and never changes once it is terminal.
AllowedTransition(s, t) ==
    \/ s = t
    \/ s = QUEUED /\ t \in {RUNNING, CANCELLED}
    \/ s = RUNNING /\ t \in {COMPLETED, FAILED, CANCELLED}

C1_StatusTransitions ==
    [][\A o \in Objects : AllowedTransition(heap[o].status, heap'[o].status)]_vars

\* ---------------------------------------------------------------- C2
\* C2: a well-formed Generate request is enqueued as Queued and answered
\* JobAccepted with the request's id and an estimated time.
C2_GenerateAccepted ==
    [][Answers("generate") =>
          /\ lastResp' = Response("job_accepted", data.id, data.steps)
          /\ jobs'[data.id] = Len(heap')
          /\ Len(heap') = Len(heap) + 1
          /\ heap'[Len(heap')].status = QUEUED
          /\ InList(queue', data.id)]_vars

\* ---------------------------------------------------------------- C3
\* C3: when execute_job has returned, exactly one JobFinished update has
\* been published for the job it executed, whatever the outcome.
C3_OneJobFinished ==
    wpc = "finish" => Count("job_finished", wjob) = 1

\* ---------------------------------------------------------------- C4
\* C4: among the updates of one job, a JobStarted precedes every Progress
\* and no JobFinished precedes a Progress.
C4_EventOrder ==
    \A j \in 1..Len(events) :
        events[j].type = "progress" =>
            /\ \E i \in 1..(j - 1) : IsUpdate(i, "job_started", events[j].obj)
            /\ \A k \in 1..(j - 1) : ~IsUpdate(k, "job_finished", events[j].obj)

\* a job with JobStarted, two Progress updates and JobFinished on the channel
C4_Witness ==
    \E o \in Objects :
        /\ Count("job_started", o) = 1
        /\ Count("progress", o) = 2
        /\ Count("job_finished", o) = 1

\* ---------------------------------------------------------------- C5
\* C5: when a Cancel request for a Running job is acknowledged, the
\* executor's cancellation flag of that job id is set.
C5_CancelSetsFlag ==
    [][(/\ Answers("cancel")
        /\ jobs[data.id] # 0
        /\ heap[jobs[data.id]].status = RUNNING)
       => (lastResp'.type = "job_cancelled" /\ data.id \in cancelled_jobs')]_vars

\* ---------------------------------------------------------------- C6
\* C6: after cancel(id) of a Queued job the job is Cancelled and its id is
\* no longer in the pending index; a Cancelled job is never handed out by
\* get_next_job.
C6_CancelQueued ==
    [][/\ (/\ Answers("cancel")
           /\ jobs[data.id] # 0
           /\ heap[jobs[data.id]].status = QUEUED)
          => (/\ heap'[jobs[data.id]].status = CANCELLED
              /\ ~InList(queue', data.id))
       /\ \A o \in Objects :
            (heap[o].status = CANCELLED /\ wjob # o) => wjob' # o]_vars

\* ---------------------------------------------------------------- C7
\* C7 (as claimed): when the wait has returned a successful result with an
\* artifact, the executor does not return "Job cancelled".
C7_NeverDiscardsArtifact ==
    [][(wpc = "post_wait" /\ images /\ wpc' = "finish") => result' # "cancelled"]_vars

\* C7 (amended): after the wait has returned a successful result, the
\* executor returns "Job cancelled" exactly when the job's cancellation flag
\* is set at that point (the artifact is then not fetched and the flag is
\* cleared); it returns success only for an artifact whose flag is not set.
C7_CancelFlagDecides ==
    [][(wpc = "post_wait" /\ wpc' = "finish") =>
          LET id == heap[wjob].job_id IN
          /\ (result' = "cancelled") <=> (id \in cancelled_jobs)
          /\ (result' = "cancelled") => (id \notin cancelled_jobs' /\ events' = events)
          /\ (result' = "success") => (images /\ id \notin cancelled_jobs)]_vars

\* the executor has returned "Job cancelled" for a job whose artifact exists
C7_Witness == wpc = "finish" /\ result = "cancelled" /\ images

\* ---------------------------------------------------------------- C8
\* C8: on the command channel a reply is due exactly while a request is
\* being handled; when the loop is back at recv the request it received has
\* got exactly one response, and nothing is sent when no request came.
C8_Alternation ==
    /\ awaiting <=> (cpc = "handle")
    /\ replies <= 1
    /\ cpc = "handle" => replies = 0
    /\ (cpc = "recv" /\ data # NoPayload) => (replies = 1 /\ lastResp # NoResponse)
    /\ (cpc = "recv" /\ data = NoPayload) => (replies = 0 /\ lastResp = NoResponse)

\* a request whose handling raised has been answered once
C8_Witness ==
    cpc = "recv" /\ data \in Malformed /\ replies = 1 /\ lastResp = ErrorResponse

\* ---------------------------------------------------------------- C9
\* C9: a payload that cannot be decoded is answered with exactly one Error
\* response, and the loop is then ready to receive the next request.
Ping == Payload(TRUE, TRUE, "ping", TRUE, NoId, 0)

C9_MalformedError ==
    (cpc = "recv" /\ data \in Malformed) =>
        /\ lastResp = ErrorResponse
        /\ replies = 1
        /\ ENABLED ServerRecv(Ping)

\* an unknown type has been answered with Error
C9_Witness ==
    cpc = "recv" /\ data.type = "bogus" /\ lastResp = ErrorResponse

\* ---------------------------------------------------------------- C10
\* C10: the job whose execution failed is marked Failed by the worker loop,
\* and every job that is Queued once an execution has failed is eventually
\* dequeued for execution (unless it is cancelled first).
C10_FailedThenContinues ==
    /\ [][(wpc = "finish" /\ result # "success" /\ wpc' = "idle")
          => heap'[wjob].status = FAILED]_vars
    /\ \A o \in 1..MaxJobs :
         (/\ wpc = "finish" /\ result # "success"
          /\ o \in Objects /\ heap[o].status = QUEUED)
         ~> (\/ wpc = "exec" /\ wjob = o
             \/ o \in Objects /\ heap[o].status = CANCELLED)

\* ---------------------------------------------------------------- C11
\* C11: the backend wait always ends (by success, error or the hard
\* timeout), and every job object handed out by get_next_job eventually has a
\* terminal status.
C11_DequeuedTerminates ==
    /\ (wpc = "poll") ~> (wpc \in {"post_wait", "finish"})
    /\ \A o \in 1..MaxJobs :
         (wpc = "exec" /\ wjob = o)
         ~> (o \in Objects /\ heap[o].status \in Terminal)

\* ---------------------------------------------------------------- C12
\* C12: complete_job(id, output) and fail_job(id, error) called for an
\* unknown id or for a job that is already Completed, Failed or Cancelled
\* leave the job map and every job (status, completed_at, output_path,
\* error) unchanged.
C12_TerminalNoOp ==
    [][(wpc = "finish" /\ wpc' = "idle") =>
          LET id == heap[wjob].job_id IN
          (jobs[id] = 0 \/ heap[jobs[id]].status \in Terminal)
              => (heap' = heap /\ jobs' = jobs)]_vars

\* ---------------------------------------------------------------- C13
\* C13: cancel_job(id) succeeds exactly when the job map holds a job under
\* that id whose status is Queued or Running: the job then becomes Cancelled
\* and the Cancel request is answered JobCancelled; otherwise nothing
\* changes and the request is answered JobError.
Cancellable(id) == jobs[id] # 0 /\ heap[jobs[id]].status \in {QUEUED, RUNNING}

C13_CancelResult ==
    [][Answers("cancel") =>
          IF Cancellable(data.id)
          THEN /\ lastResp' = Response("job_cancelled", data.id, 0)
               /\ heap'[jobs[data.id]].status = CANCELLED
          ELSE /\ lastResp' = Response("job_error", data.id, 0)
               /\ <<heap, jobs, queue, events>>' = <<heap, jobs, queue, events>>]_vars

\* a Cancel for the job that is being executed has been answered JobCancelled
C13_Witness ==
    /\ cpc = "recv" /\ data.type = "cancel"
    /\ lastResp = Response("job_cancelled", data.id, 0)
    /\ wpc = "poll" /\ jobs[data.id] = wjob

\* ---------------------------------------------------------------- C14
\* C14: get_next_job returns, among the jobs that are Queued when it is
\* called, the one that was added earliest, sets its status to Running and
\* stamps started_at; when no job is Queued it returns none.
QueuedObjects == {o \in Objects : heap[o].status = QUEUED}
Earliest(S) == CHOOSE o \in S : \A p \in S : o <= p

C14_Fifo ==
    [][/\ WorkerGetNext =>
            IF QueuedObjects = {}
            THEN wjob' = 0 /\ wpc' = "idle"
            ELSE wjob' = Earliest(QueuedObjects) /\ wpc' = "mark"
       /\ WorkerMark =>
            /\ heap'[wjob].status = RUNNING
            /\ heap'[wjob].started_at
            /\ wpc' = "exec"]_vars

\* ---------------------------------------------------------------- C15
\* C15: at every moment at most one job has status Running, among the jobs
\* the job map holds (what active_jobs() counts) and the job the worker
\* loop holds; and the worker takes a new job only when it is executing none.
LiveObjects == {o \in Objects : jobs[heap[o].job_id] = o \/ wjob = o}

C16_Timestamps ==
    /\ [](\A o \in Objects : heap[o].completed_at <=> heap[o].status \in Terminal)
    /\ [][\A o \in 1..Len(heap') :
            heap'[o].started_at <=>
                \/ o \in Objects /\ heap[o].started_at
                \/ WorkerMark /\ wjob = o]_vars

\* ---------------------------------------------------------------- C17
\* C17: every job submitted through Generate has got exactly one JobStarted
\* update on the event channel by the time its life is over: when the
\* worker loop has finished with it, or when it has ended without ever
\* being dequeued; and never more than one.
LifeOver(o) ==
    /\ heap[o].status \in Terminal
    /\ \/ wjob = o /\ wpc = "idle"
       \/ wjob # o /\ ~heap[o].started_at

C17_OneJobStarted ==
    \A o \in Objects :
        /\ Count("job_started", o) <= 1
        /\ LifeOver(o) => Count("job_started", o) = 1

\* ---------------------------------------------------------------- C18
\* C18: from one update_progress of a tracked job to the next, for any
\* backend signal (status, node name, step), the percent returned does not
\* decrease.
C18_PercentMonotone ==
    [][\A id \in Ids :
          (/\ id \in active_jobs
           /\ snapshot[id] # NoSnapshot
           /\ snapshot'[id] # NoSnapshot)
          => snapshot'[id].percent >= snapshot[id].percent]_vars


\* Entries the worker thread takes off the queue in this step
Taken == bqueue \ bqueue'

\* Batches that are Queued and waiting in the queue
WaitingIn(q) ==
    {i \in BatchIds : /\ bjobs[i] # NoBatch
                      /\ bjobs[i].status = QUEUED
                      /\ \E e \in q : e.job_id = i}

\* C19: the batch worker always takes the entry of the highest priority
\* class off the queue (Urgent before High before Normal before Low),
\* whatever the order of submission: no entry left behind has a higher
\* class than the one taken, and a batch handed to _process_job has a class
\* at least as high as every batch still Queued.
C19_PriorityOrder ==
    [][/\ \A e \in Taken : \A f \in bqueue' : e.priority <= f.priority
       /\ (bpc = "idle" /\ bpc' = "process") =>
             \A i \in WaitingIn(bqueue') :
                 bjobs[bcur'].priority <= bjobs[i].priority]_vars

\* an Urgent batch is handed to _process_job while a Low batch that was
\* submitted before it is still Queued
C19_Witness ==
    /\ bpc = "process"
    /\ bjobs[bcur].priority = URGENT
    /\ \E i \in WaitingIn(bqueue) :
          /\ bjobs[i].priority = LOW
          /\ bjobs[i].seq < bjobs[bcur].seq

\* C20: among the entries of one priority class the batch worker takes the
\* one submitted first: every entry of the same class left behind belongs
\* to a batch submitted after the batch of the entry taken.
C20_InsertionOrder ==
    [][\A e \in Taken : \A f \in bqueue' :
          f.priority = e.priority => bjobs[e.job_id].seq < bjobs[f.job_id].seq]_vars


\* A batch that was cancelled while it was Queued: cancel_job stamped it
\* before _process_job ever set started_at
CancelledQueued(i) ==
    /\ bjobs[i] # NoBatch
    /\ bjobs[i].status = CANCELLED
    /\ ~bjobs[i].started_at

AttemptsOf(att, i) == {a \in att : a[1] = i}

\* C21: a batch cancelled while it is Queued is never executed: from the
\* cancel on its status stays Cancelled, it is never started, and the loop
\* of _process_job takes up none of its prompts, whatever the worker
\* thread is doing at the moment of the cancel.
C21_CancelledQueuedNeverRuns ==
    [][\A i \in BatchIds :
          CancelledQueued(i) =>
             /\ bjobs'[i].status = CANCELLED
             /\ ~bjobs'[i].started_at
             /\ AttemptsOf(battempted', i) = {}]_vars


\* A batch that was cancelled while it was Running
CancelledRunning(i) ==
    /\ bjobs[i] # NoBatch
    /\ bjobs[i].status = CANCELLED
    /\ bjobs[i].started_at

AttemptedInOrder ==
    bpc \in {"prompt", "wait"} =>
        AttemptsOf(battempted, bcur) =
            {<<bcur, k>> : k \in 0..(IF bpc = "wait" THEN bidx ELSE bidx - 1)}

\* C23: within a batch the failure of a prompt does not abort the batch: the
\* end of an iteration, failed or not, leaves the status alone and leads to
\* the head of the next iteration, and there the next prompt in order is
\* taken up unless the list is exhausted or the batch was cancelled.
C23_FailureDoesNotAbort ==
    /\ []AttemptedInOrder
    /\ [][/\ (bpc = "wait" /\ bpc' # "wait") =>
                /\ bpc' = "prompt" /\ bcur' = bcur /\ bidx' = bidx + 1
                /\ bjobs'[bcur].status = bjobs[bcur].status
          /\ (/\ bpc = "prompt" /\ bpc' # "prompt"
              /\ bidx < bjobs[bcur].total_prompts
              /\ bjobs[bcur].status # CANCELLED) =>
                /\ bpc' = "wait" /\ bcur' = bcur /\ bidx' = bidx
                /\ battempted' = battempted \cup {<<bcur, bidx>>}]_vars

\* the first prompt of a batch has failed and the second is being generated
C23_Witness ==
    /\ bpc = "wait"
    /\ bidx = 1
    /\ bjobs[bcur].error
    /\ <<bcur, 1>> \in battempted


\* C24: every message of the request, response and update families
\* round-trips: the decoder of its family, applied to the bytes serialize
\* made of it, returns a message equal to it field for field, with the
\* absent optional fields absent and the nested model entries equal.
C24_RoundTrip ==
    (msg # PyNone /\ decoder = FamilyOf(msg.cls)) => decoded = msg

\* a GenerateRequest with an absent optional field and a present falsy one
\* has made the round trip
C24_Witness ==
    /\ msg # PyNone
    /\ msg.cls = "GenerateRequest"
    /\ msg.fields.lora = PyNone
    /\ msg.fields.batch_size = PyInt(0)
    /\ decoder = "request"
    /\ decoded = msg

\* the discriminators a decoder knows
TypesOf(family) ==
    CASE family = "request" -> RequestTypes
      [] family = "response" -> ResponseTypes
      [] family = "update" -> UpdateTypes

\* C25: each decoder accepts only its own family: for bytes whose type
\* discriminator belongs to another family, is unknown or is missing, it
\* raises ValueError; for bytes that are no map at all it raises as well;
\* and whatever message a decoder returns is of its own family.
C25_OwnFamilyOnly ==
    decoder \in Families =>
        LET obj == unpackb(wire) IN
        /\ (obj.k = "dict" /\ TypeOf(obj) \notin TypesOf(decoder)) =>
               decoded = Raise("ValueError")
        /\ obj.k # "dict" => IsRaise(decoded)
        /\ ~IsRaise(decoded) => FamilyOf(decoded.cls) = decoder

\* the update decoder has been applied to a serialized response and raised
C25_Witness ==
    /\ msg # PyNone
    /\ msg.cls = "JobAcceptedResponse"
    /\ decoder = "update"
    /\ decoded = Raise("ValueError")


\* C26: update_progress for a job id that was never started, or that was
\* already completed, returns no progress snapshot (it fails instead): an
\* id outside the active jobs never has a snapshot returned for it.
C26_UntrackedUpdateFails ==
    \A id \in Ids : id \notin active_jobs => snapshot[id] = NoSnapshot


\* the last n of the samples numbered 1..total, in the order they were added
MostRecent(total, n) == [i \in 1..n |-> total - n + i]

Min(a, b) == IF a < b THEN a ELSE b

\* C27: after any sequence of sample additions a rolling window holds at
\* most its bound and contains exactly the most recently added samples in
\* the order they were added: StageTimings.samples with max_samples and
\* generation_times with max_tracked_times.
C27_RollingWindow ==
    /\ Len(stage_timings[WindowStage]) <= max_samples
    /\ stage_timings[WindowStage] =
           MostRecent(added.stage, Min(added.stage, max_samples))
    /\ Len(generation_times) <= max_tracked_times
    /\ generation_times = MostRecent(added.batch, Min(added.batch, max_tracked_times))

\* both windows have been filled beyond their bound
C27_Witness ==
    /\ added.stage > max_samples
    /\ added.batch > max_tracked_times
    /\ Len(stage_timings[WindowStage]) = max_samples
    /\ Len(generation_times) = max_tracked_times


\* C28: in the Sampling stage percent is the summed weights of the stages
\* the job has completed plus 80 x step / total_steps, clamped to [0, 100];
\* and for a job with total_steps = 20 whose update reports step 10 in
\* Sampling it lies in [30, 70].
C28_SamplingPercent ==
    \A id \in Ids :
        (id \in active_jobs /\ snapshot[id] # NoSnapshot /\ snapshot[id].stage = SAMPLING) =>
            /\ snapshot[id].percent =
                   Clip(0,
                        CompletedWeight(tprog[id].completed_stages) * PercentScale
                          + (80 * PercentScale * snapshot[id].step) \div snapshot[id].total_steps,
                        100 * PercentScale)
            /\ (snapshot[id].total_steps = 20 /\ snapshot[id].step = 10) =>
                   /\ snapshot[id].percent >= 30 * PercentScale
                   /\ snapshot[id].percent <= 70 * PercentScale


\* one sample of 4.0 seconds
FourSeconds == 4 * TicksPerSecond

\* C29: StageTimings.estimate() returns the stage's fixed default while the
\* stage's window is empty and the mean of the window otherwise; after a
\* single sample of 4.0 it returns 4.0.
C29_Estimate ==
    \A stage \in GenerationStage :
        LET samples == stage_timings[stage]
            est == estimate(stage, samples)
        IN  /\ est.den > 0
            /\ samples = <<>> => est.num = defaults[stage] * est.den
            /\ samples # <<>> => est.num * Len(samples) = SumSeq(samples) * est.den
            /\ samples = <<FourSeconds>> => est.num = FourSeconds * est.den

\* one stage has been left once, after 4.0 seconds, and another not at all
C29_Witness ==
    /\ \E stage \in GenerationStage : stage_timings[stage] = <<FourSeconds>>
    /\ \E stage \in GenerationStage : stage_timings[stage] = <<>>


\* the backend health check of executor.initialize() has failed
HealthCheckFailed == phase # "boot" /\ ~client

\* C30: when the backend health check fails at startup the server does not
\* start: the worker thread is never started, no socket is ever bound and no
\* request is ever received, queued or answered.
C30_StartupFailureIsFatal ==
    HealthCheckFailed =>
        /\ phase = "exited"
        /\ ~ThreadStarted /\ wpc = "idle" /\ wjob = 0
        /\ ~SocketsBound
        /\ cpc = "recv" /\ ~awaiting /\ data = NoPayload
        /\ replies = 0 /\ lastResp = NoResponse
        /\ heap = <<>> /\ queue = <<>> /\ events = <<>>

\* start() has run with the backend down
C30_Witness == phase = "exited" /\ ~client


\* ---------------------------------------------------------------- C31
\* C31: whenever a Generate request is answered with an error response
\* (JobError or Error), no job for that request has been added to the job map
\* or to the pending index, so that it is never handed to the worker.
C31_RejectedNotEnqueued ==
    [][(/\ cpc = "handle" /\ cpc' = "recv"
        /\ data.type = "generate"
        /\ lastResp'.type \in {"job_error", "error"}) =>
           /\ heap' = heap
           /\ jobs' = jobs
           /\ queue' = queue]_vars


\* ---------------------------------------------------------------- C32
\* C32: once a batch's status is Cancelled it never changes again; the
\* worker thread that was processing it neither marks it Completed or Failed
\* nor counts it in total_processed.
C32_CancelledIsFinal ==
    [][\A i \in BatchIds :
          (bjobs[i] # NoBatch /\ bjobs[i].status = CANCELLED) =>
             /\ bjobs'[i].status = CANCELLED
             /\ bcur = i => total_processed' = total_processed]_vars


\* ---------------------------------------------------------------- C33
\* C33: adding a job under an id that is already in the job map never
\* overwrites the existing job: the map keeps naming the same job object,
\* whose fields the add leaves alone, and the worker's complete_job/fail_job
\* for the job it executed changes no other job.
C33_NoOverwrite ==
    [][/\ \A id \in Ids :
             jobs[id] # 0 =>
                /\ jobs'[id] = jobs[id]
                /\ Answers("generate") => heap'[jobs[id]] = heap[jobs[id]]
       /\ (wpc = "finish" /\ wpc' = "idle") =>
             \A o \in 1..Len(heap) : o # wjob => heap'[o] = heap[o]]_vars


\* ---------------------------------------------------------------- C34
\* C34: every message published on the event channel belongs to the Update
\* family (JobStarted, Progress, Preview, JobFinished), the only family the
\* update decoder accepts.
C34_EventsAreUpdates ==
    \A i \in 1..Len(events) : events[i].type \in UpdateTypes


\* ---------------------------------------------------------------- C35
\* the worker thread is inside get_next_job, between the test of the status
\* and the assignments
InGetNextJob == wpc = "mark"

\* the command thread runs add_job or cancel_job in this step
CallsQueue == Answers("generate") \/ Answers("cancel")

\* C35: no two threads are ever inside a mutating JobQueue operation at the
\* same time: the command thread runs no add_job or cancel_job while the
\* worker thread is inside get_next_job.
C35_MutualExclusion ==
    [][~(InGetNextJob /\ CallsQueue)]_vars


\* ---------------------------------------------------------------- C36
\* C36: when execute_job has returned, whatever the outcome, the executor
\* holds no state of that job: its id is neither among the Progress
\* Tracker's active jobs nor in the executor's cancelled_jobs set.
C36_NoResidue ==
    wpc = "finish" =>
        /\ heap[wjob].job_id \notin active_jobs
        /\ heap[wjob].job_id \notin cancelled_jobs


\* ---------------------------------------------------------------- C37
\* C37: a cancellation of job A requested through the executor interrupts
\* the backend only while A itself is the job being executed, and so never
\* the execution of another job B.
C37_InterruptOwnJobOnly ==
    interrupt # NoInterrupt => interrupt.during = interrupt.by


\* ---------------------------------------------------------------- C38
\* the tracked jobs that leave stage s in this step: by an update_progress
\* that changes the stage, or by complete_job
Leaving(s) ==
    {id \in active_jobs :
        /\ ncalls' # ncalls
        /\ tprog[id].current_stage = s
        /\ id \notin active_jobs' \/ tprog'[id].current_stage # s}

NameStages(kw) ==
    {LOADING_MODELS : k \in kw \cap {"checkpoint", "load"}}
    \cup {ENCODING : k \in kw \cap {"encode", "clip"}}
    \cup {SAMPLING : k \in kw \cap {"sampler"}}
    \cup {DECODING : k \in kw \cap {"decode", "vae"}}
    \cup {POST_PROCESSING : k \in kw \cap {"save"}}

\* C39: for a Running signal that reports a node name, the stage is chosen
\* by the name-substring rule, ahead of the elapsed-time fallback: checkpoint
\* or load gives LoadingModels, encode or clip Encoding, sampler Sampling,
\* decode or vae Decoding, save PostProcessing; so CheckpointLoader,
\* CLIPTextEncode, KSampler, VAEDecode and SaveImage give those five stages.
C39_NodeNameRule ==
    \A id \in active_jobs, wp \in Signals :
        (wp.status = "running" /\ wp.node_name # "") =>
            \A stage \in NameStages(Keywords(wp.node_name)) :
                map_status_to_stage(wp, tprog[id], now) = stage

====
